---- MODULE Spec2Model ----
(***************************************************************************)
(* Model of stubs.model.Model (src/stubs/model.py): the time-stepping      *)
(* engine (solve / solve_single_timestep / monolithic_solve and the        *)
(* step-size rules) and the block-system builder (get_block_system).       *)
(*                                                                         *)
(* Simulated time and step sizes are Python floats in the source.  Here    *)
(* they are exact multiples of one tick (naturals), so t + dt and          *)
(* final_t - t are exact; floating-point rounding is not modelled.         *)
(* A finite-element field is abstracted, per active compartment, to the    *)
(* number of the step whose solve produced it (0: the initial condition),  *)
(* enough to tell whether a field was copied, kept or overwritten.         *)
(***************************************************************************)
EXTENDS Integers, Sequences, FiniteSets, TLC

\* ------------------------------------------------------------------------
\* Bounds of the model
\* ------------------------------------------------------------------------
\* largest final time and checkpoint time, in ticks
MaxT == 4
\* largest initial / checkpoint step size, in ticks
MaxDt == 2
\* longest checkpoint list config.solver['adjust_dt']
MaxChk == 2
\* number of monolithic_solve calls explored (cap on the counter idx)
MaxSteps == 4
\* number of active compartments of the assembled model
num_active_compartments == 2
\* the SNES solver's configured iteration limit (self.solver.max_it)
max_it == 2
\* largest number of compartments of a registry whose block system is built
MaxComp == 3
\* largest number of species of one compartment
MaxSpecies == 1
\* largest number of reactive flux forms of such a model
MaxFlux == 1
\* largest mesh marker of a compartment
MaxMarker == 3
\* longest list of markers of one compartment
MaxMarkLen == 2
\* bits of the significand of the floating-point numbers of the parameter
\* updates (53 in the source's doubles)
Precision == 3
\* the smallest quantum of those numbers is 2^-FracBits
FracBits == 2
\* largest time and step size of a parameter update, in quanta
MaxTime == 14
\* largest rate constant of a parameter, in quanta
MaxRate == 7

VARIABLES
    t,              \* self.t
    tn,             \* self.tn, the previous time (unset before the first step)
    dt,             \* self.dt
    idx,            \* self.idx, the step counter
    idx_nl,         \* self.idx_nl, iteration counts of the SNES solves
    reset_dt,       \* self.reset_dt, the pending step-size reset flag
    adjust_dt,      \* self.config.solver['adjust_dt'], list of <<time, dt>>
    adjust_dt_None, \* TRUE when config.solver['adjust_dt'] is None
    final_t,        \* self.final_t
    use_snes,       \* self.config.solver['use_snes']
    u,              \* self.u: 'u' (current) and 'n' (previous) fields
    pvalue,         \* parameter.value of every parameter of self.pc
    pc_items,       \* self.pc.items as update_time_dependent_parameters walks
                    \* them (empty where that function is never called)
    consumed,       \* the checkpoints deleted from adjust_dt so far, oldest first
    exc,            \* exception that ended the last call ("none": it returned)
    solver_ok,      \* the last call invoked the solver and it reported success
    pc,             \* position of the caller: driver script or solve() loop
    cc,             \* self.cc in registry order: num_species of every compartment
    mpi_size,       \* self.mpi_size
    stage,          \* how far initialize() got
    active,         \* self._active_compartments, as positions in the registry
    dof_index,      \* compartment.dof_index of every compartment (-1: not set)
    ulen,           \* len(u) of the list u handed to get_block_system
    forms,          \* self.forms, the variational forms created so far
    Fsum,           \* the summed residual handed to get_block_system
    Fblocks,        \* Flist returned by get_block_system
    Jblocks,        \* Jlist returned by get_block_system
    block_sizes,    \* block_sizes returned by get_block_system
    bexc,           \* exception raised by initialize() or get_block_system
    model,          \* the Model under validation: its containers pc, sc, cc, rc,
                    \* fc, the cached max_dim / min_dim, the parent mesh's
                    \* dimensionality and config.flags['allow_unused_components']
    vstep,          \* the step of initialize() that runs next
    verr,           \* the exception that ended initialize() (kind "none": none)
    before,         \* the records as they were when initialize() was called
    run,            \* which run of the validation steps this is (1 or 2)
    first           \* the model as the first run of the validation steps left it

stepping == <<t, tn, dt, idx, idx_nl, reset_dt, adjust_dt, adjust_dt_None,
              final_t, use_snes, u, pvalue, pc_items, consumed, exc, solver_ok, pc>>
assembly == <<cc, mpi_size, stage, active, dof_index, ulen, forms, Fsum,
              Fblocks, Jblocks, block_sizes, bexc>>
validation == <<model, vstep, verr, before, run, first>>
vars == <<stepping, assembly, validation>>

\* ------------------------------------------------------------------------
\* The registry and its validation (Model._init_1)
\* ------------------------------------------------------------------------
\* every name and symbol of the models considered, in the order in which
\* names sort (upper case first); containers list their records in it
SymbolOrder == <<"A", "B", "J", "c1", "c2", "c3", "k1", "k2", "r1", "r2",
                 "t", "u", "w">>

Rank(n) == CHOOSE i \in 1..Len(SymbolOrder) : SymbolOrder[i] = n

RECURSIVE InOrder(_)
\* the names of a set as the sequence a container iterates over
InOrder(S) ==
    IF S = {} THEN <<>>
    ELSE LET n == CHOOSE x \in S : \A y \in S : Rank(x) <= Rank(y)
         IN  <<n>> \o InOrder(S \ {n})

\* the elements of a sequence
Range(q) == {q[i] : i \in 1..Len(q)}

NoError == [kind |-> "none", check |-> "none"]

\* 'raise kind(...)' in the step that performs `check`
Raise(kind, check) == [kind |-> kind, check |-> check]

\* a Compartment record as the user defines it; the derived fields are unset
Compartment(dim, marker) ==
    [dimensionality |-> dim, cell_marker |-> marker, is_volume |-> "unset",
     species |-> {}, num_species |-> -1]

\* compartment.cell_marker: one integer marker or a list of them
IntMarker(mk) == [is_list |-> FALSE, values |-> <<mk>>]

ListMarker(mks) == [is_list |-> TRUE, values |-> mks]

\* a Species record as the user defines it
Species(compartment_name) ==
    [compartment_name |-> compartment_name, compartment |-> "",
     dimensionality |-> -1, dof_index |-> -1]

\* a Reaction record as the user defines it (a rate string is the sequence
\* of the symbols it multiplies, <<>> when there is none)
Reaction(reaction_type, lhs, rhs, param_map, species_map, eqn_f_str, restriction) ==
    [reaction_type |-> reaction_type, lhs |-> lhs, rhs |-> rhs,
     param_map |-> param_map, species_map |-> species_map,
     eqn_f_str |-> eqn_f_str, eqn_r_str |-> <<>>,
     explicit_restriction_to_domain |-> restriction,
     parameters |-> {}, species |-> {}, compartments |-> {},
     num_compartments |-> -1, topology |-> ""]

\* the records of the four containers
Records(m) == [pc |-> m.pc, sc |-> m.sc, cc |-> m.cc, rc |-> m.rc]

SetMax(S) == CHOOSE x \in S : \A y \in S : y <= x

SetMin(S) == CHOOSE x \in S : \A y \in S : x <= y

\* Model.max_dim, a cached property: computed on first use, then kept
max_dim(m) ==
    IF m.max_dim # -1 THEN m.max_dim
    ELSE SetMax({m.cc[c].dimensionality : c \in DOMAIN m.cc})

\* Model.min_dim, a cached property
min_dim(m) ==
    IF m.min_dim # -1 THEN m.min_dim
    ELSE SetMin({m.cc[c].dimensionality : c \in DOMAIN m.cc})

\* Model._init_1_1_check_mesh_dimensionality
init_1_1_check_mesh_dimensionality(m) ==
    LET mx == max_dim(m)
        mn == min_dim(m)
        m1 == [m EXCEPT !.max_dim = mx, !.min_dim = mn]
    IN  IF (mx - mn) \notin {0, 1}
        THEN [m |-> m1, err |-> Raise("ValueError", "dimensionality")]
        ELSE IF mx > m.parent_mesh_dimensionality
        THEN [m |-> m1, err |-> Raise("ValueError", "dimensionality")]
        ELSE [m |-> [m1 EXCEPT !.cc = [c \in DOMAIN m.cc |->
                        [m.cc[c] EXCEPT !.is_volume =
                            IF m.cc[c].dimensionality = mx THEN "True" ELSE "False"]]],
              err |-> NoError]

\* self._all_keys: the union of the keys of the four containers
all_keys(m) == m.pc \cup DOMAIN m.sc \cup DOMAIN m.cc \cup DOMAIN m.rc

protected_names == {"x[0]", "x[1]", "x[2]", "t", "unit_scale_factor"}

RECURSIVE FlatMarkers(_, _)
\* the markers of the compartments `order`, each compartment's marker_list
\* in turn
FlatMarkers(ccs, order) ==
    IF order = <<>> THEN <<>>
    ELSE ccs[Head(order)].cell_marker.values \o FlatMarkers(ccs, Tail(order))

RECURSIVE MarkerScan_per_compartment(_, _)
\* the scan with a set of seen markers that is emptied at every marker
MarkerScan_per_compartment(ms, all_markers) ==
    IF ms = <<>> THEN NoError
    ELSE IF Head(ms) \in all_markers THEN Raise("ValueError", "marker")
    ELSE IF Head(ms) = 0 THEN Raise("ValueError", "marker")
    ELSE MarkerScan_per_compartment(Tail(ms), {})

RECURSIVE MarkerScan(_, _)
\* lines 226-240: the loop over the markers with the set _all_markers seen
\* so far; the first marker seen before or equal to 0 raises
MarkerScan(ms, all_markers) ==
    IF ms = <<>> THEN NoError
    ELSE IF Head(ms) \in all_markers THEN Raise("ValueError", "marker")
    ELSE IF Head(ms) = 0 THEN Raise("ValueError", "marker")
    ELSE MarkerScan(Tail(ms), all_markers \cup {Head(ms)})

\* Model._init_1_2_check_namespace_conflicts
init_1_2_check_namespace_conflicts(m) ==
    LET sizes == Cardinality(m.pc) + Cardinality(DOMAIN m.sc)
                 + Cardinality(DOMAIN m.cc) + Cardinality(DOMAIN m.rc)
    IN  IF sizes # Cardinality(all_keys(m))
        THEN [m |-> m, err |-> Raise("ValueError", "namespace")]
        ELSE IF protected_names \cap all_keys(m) # {}
        THEN [m |-> m, err |-> Raise("ValueError", "protected")]
        ELSE [m |-> m,
              err |-> MarkerScan(FlatMarkers(m.cc, InOrder(DOMAIN m.cc)), {})]

\* Model._init_1_3_check_parameter_dimensionality
init_1_3_check_parameter_dimensionality(m) ==
    IF "x[2]" \in all_keys(m) /\ max_dim(m) < 3
    THEN [m |-> m, err |-> Raise("ValueError", "parameter_dimensionality")]
    ELSE IF "x[1]" \in all_keys(m) /\ max_dim(m) < 2
    THEN [m |-> m, err |-> Raise("ValueError", "parameter_dimensionality")]
    ELSE [m |-> m, err |-> NoError]

\* ------------------------------------------------------------------------
\* Cross-container initialisation (Model._init_2)
\* ------------------------------------------------------------------------
\* the values of a dict
Values(f) == {f[k] : k \in DOMAIN f}

RECURSIVE SortSymbols(_)
\* str() of a parsed product: its symbols in sorted order
SortSymbols(q) ==
    IF q = <<>> THEN <<>>
    ELSE LET i == CHOOSE a \in 1..Len(q) : \A b \in 1..Len(q) : Rank(q[a]) <= Rank(q[b])
         IN  <<q[i]>> \o SortSymbols(SubSeq(q, 1, i - 1) \o SubSeq(q, i + 1, Len(q)))

\* reaction._parse_custom_reaction(eqn_str): parse the string, substitute
\* the names of param_map and species_map for their placeholders and print
\* the result
parse_custom_reaction(r, eqn_str) ==
    SortSymbols([i \in 1..Len(eqn_str) |->
        IF eqn_str[i] \in DOMAIN r.param_map THEN r.param_map[eqn_str[i]]
        ELSE IF eqn_str[i] \in DOMAIN r.species_map THEN r.species_map[eqn_str[i]]
        ELSE eqn_str[i]])

\* self.config.reaction_database: rate-law templates by reaction type
reaction_database == [leak |-> <<"u", "J">>]

\* lines 258-287, the branch that raises: no reaction type with a rate law
\* and no rate string
no_equation(r) ==
    /\ r.reaction_type \notin {"mass_action", "mass_action_forward"}
    /\ r.reaction_type \notin DOMAIN reaction_database
    /\ r.eqn_f_str = <<>>
    /\ r.eqn_r_str = <<>>

\* lines 258-284: the rate strings one pass of the loop gives a reaction
symbolic_strings(r) ==
    IF r.reaction_type = "mass_action"
    THEN [r EXCEPT !.eqn_f_str = <<r.param_map["on"]>> \o r.lhs,
                   !.eqn_r_str = <<r.param_map["off"]>> \o r.rhs]
    ELSE IF r.reaction_type = "mass_action_forward"
    THEN [r EXCEPT !.eqn_f_str = <<r.param_map["on"]>> \o r.lhs]
    ELSE IF r.reaction_type \in DOMAIN reaction_database
    THEN [r EXCEPT !.eqn_f_str =
                      parse_custom_reaction(r, reaction_database[r.reaction_type])]
    ELSE [r EXCEPT !.eqn_f_str = IF r.eqn_f_str # <<>>
                                 THEN parse_custom_reaction(r, r.eqn_f_str)
                                 ELSE r.eqn_f_str,
                   !.eqn_r_str = IF r.eqn_r_str # <<>>
                                 THEN parse_custom_reaction(r, r.eqn_r_str)
                                 ELSE r.eqn_r_str]

\* 'for reaction in self.rc' with a body that may raise: every reaction
\* before the first one of `bad` gets its new record, the first one of `bad`
\* gets `partial` (what the body did before raising), the rest is not reached
LoopOverReactions(rc, bad, done, partial) ==
    IF bad = {} THEN [r \in DOMAIN rc |-> done[r]]
    ELSE LET stop == CHOOSE x \in bad : \A y \in bad : Rank(x) <= Rank(y)
         IN  [r \in DOMAIN rc |->
                IF Rank(r) < Rank(stop) THEN done[r]
                ELSE IF r = stop THEN partial[r]
                ELSE rc[r]]

\* Model._init_2_1_reactions_to_symbolic_strings
init_2_1_reactions_to_symbolic_strings(m) ==
    LET bad == {r \in DOMAIN m.rc : no_equation(m.rc[r])}
        done == [r \in DOMAIN m.rc |-> symbolic_strings(m.rc[r])]
    IN  [m |-> [m EXCEPT !.rc = LoopOverReactions(m.rc, bad, done, m.rc)],
         err |-> IF bad = {} THEN NoError ELSE Raise("ValueError", "equation")]

\* the test of lines 297-300 with the names of compartments taken as known
unknown_symbol_but_compartment(m, eqn_str) ==
    LET var_set == Range(eqn_str)
    IN  /\ eqn_str # <<>>
        /\ Cardinality(var_set \cap m.pc) + Cardinality(var_set \cap DOMAIN m.sc)
              + Cardinality(var_set \cap DOMAIN m.cc)
              # Cardinality(var_set)

\* lines 295-302: a rate string with a free symbol that is no parameter and
\* no species, as the count of lines 298-300 sees it
unknown_symbol(m, eqn_str) ==
    LET var_set == Range(eqn_str)
    IN  /\ eqn_str # <<>>
        /\ Cardinality(var_set \cap m.pc) + Cardinality(var_set \cap DOMAIN m.sc)
              # Cardinality(var_set)

\* Model._init_2_2_check_reaction_validity
init_2_2_check_reaction_validity(m) ==
    IF \E r \in DOMAIN m.rc : \/ unknown_symbol(m, m.rc[r].eqn_f_str)
                              \/ unknown_symbol(m, m.rc[r].eqn_r_str)
    THEN [m |-> m, err |-> Raise("NameError", "symbol")]
    ELSE [m |-> m, err |-> NoError]

\* lines 310-313: the names a reaction links to
compartment_names(m, r) ==
    {m.sc[sp].compartment_name : sp \in Values(r.species_map) \cap DOMAIN m.sc}
    \cup (IF r.explicit_restriction_to_domain # ""
          THEN {r.explicit_restriction_to_domain} ELSE {})

\* lines 309-317: the linked fields of a reaction
linked(m, r) ==
    [r EXCEPT !.parameters = Values(r.param_map),
              !.species = Values(r.species_map),
              !.compartments = compartment_names(m, r),
              !.num_compartments = Cardinality(compartment_names(m, r))]

\* lines 309-313: a name that is looked up in a container that lacks it
missing_key(m, r) ==
    \/ ~(Values(r.param_map) \subseteq m.pc)
    \/ ~(Values(r.species_map) \subseteq DOMAIN m.sc)
    \/ ~(compartment_names(m, r) \subseteq DOMAIN m.cc)

\* the classification with 'sum(is_volume) < 1' for the three-compartment
\* test of line 337
topology_one_volume_of_three(is_volume) ==
    LET n == Cardinality(DOMAIN is_volume)
        volumes == Cardinality({c \in DOMAIN is_volume : is_volume[c] = "True"})
    IN  IF n = 1
        THEN [tag |-> IF volumes = 1 THEN "volume" ELSE "surface", kind |-> "none"]
        ELSE IF n = 2
        THEN IF volumes = 2 THEN [tag |-> "", kind |-> "NotImplementedError"]
             ELSE IF volumes = 0 THEN [tag |-> "", kind |-> "Exception"]
             ELSE [tag |-> "volume_surface", kind |-> "none"]
        ELSE IF n = 3
        THEN IF volumes = 3 THEN [tag |-> "", kind |-> "Exception"]
             ELSE IF volumes < 1 THEN [tag |-> "", kind |-> "Exception"]
             ELSE [tag |-> "volume_surface_volume", kind |-> "none"]
        ELSE [tag |-> "", kind |-> "ValueError"]

\* the classification without the two-volume test of line 328
topology_two_volumes_pass(is_volume) ==
    LET n == Cardinality(DOMAIN is_volume)
        volumes == Cardinality({c \in DOMAIN is_volume : is_volume[c] = "True"})
    IN  IF n = 1
        THEN [tag |-> IF volumes = 1 THEN "volume" ELSE "surface", kind |-> "none"]
        ELSE IF n = 2
        THEN IF volumes = 0 THEN [tag |-> "", kind |-> "Exception"]
             ELSE [tag |-> "volume_surface", kind |-> "none"]
        ELSE IF n = 3
        THEN IF volumes = 3 THEN [tag |-> "", kind |-> "Exception"]
             ELSE IF volumes < 2 THEN [tag |-> "", kind |-> "Exception"]
             ELSE [tag |-> "volume_surface_volume", kind |-> "none"]
        ELSE [tag |-> "", kind |-> "ValueError"]

\* lines 319-342: the topology of a reaction from the is_volume flags of its
\* compartments, or the exception raised
topology(is_volume) ==
    LET n == Cardinality(DOMAIN is_volume)
        volumes == Cardinality({c \in DOMAIN is_volume : is_volume[c] = "True"})
    IN  IF n = 1
        THEN [tag |-> IF volumes = 1 THEN "volume" ELSE "surface", kind |-> "none"]
        ELSE IF n = 2
        THEN IF volumes = 2 THEN [tag |-> "", kind |-> "NotImplementedError"]
             ELSE IF volumes = 0 THEN [tag |-> "", kind |-> "Exception"]
             ELSE [tag |-> "volume_surface", kind |-> "none"]
        ELSE IF n = 3
        THEN IF volumes = 3 THEN [tag |-> "", kind |-> "Exception"]
             ELSE IF volumes < 2 THEN [tag |-> "", kind |-> "Exception"]
             ELSE [tag |-> "volume_surface_volume", kind |-> "none"]
        ELSE [tag |-> "", kind |-> "ValueError"]

\* the is_volume flags of the compartments of a linked reaction
flags(m, r) == [c \in r.compartments |-> m.cc[c].is_volume]

\* Model._init_2_3_link_reaction_properties
init_2_3_link_reaction_properties(m) ==
    LET nokey == {r \in DOMAIN m.rc : missing_key(m, m.rc[r])}
        lk == [r \in DOMAIN m.rc |->
                 IF r \in nokey THEN m.rc[r] ELSE linked(m, m.rc[r])]
        topo == [r \in DOMAIN m.rc |->
                   IF r \in nokey THEN [tag |-> "", kind |-> "KeyError"]
                   ELSE topology(flags(m, lk[r]))]
        bad == {r \in DOMAIN m.rc : topo[r].kind # "none"}
        done == [r \in DOMAIN m.rc |-> [lk[r] EXCEPT !.topology = topo[r].tag]]
    IN  [m |-> [m EXCEPT !.rc = LoopOverReactions(m.rc, bad, done, lk)],
         err |-> IF bad = {} THEN NoError
                 ELSE LET stop == CHOOSE x \in bad : \A y \in bad : Rank(x) <= Rank(y)
                      IN  Raise(topo[stop].kind,
                                IF stop \in nokey THEN "link" ELSE "topology")]

\* f restricted to the keys in S
Restrict(f, S) == [k \in DOMAIN f \cap S |-> f[k]]

\* the sweep without the removal of unused compartments (lines 368-376)
init_2_4_keeps_compartments(m) ==
    LET all_parameters == UNION {m.rc[r].parameters : r \in DOMAIN m.rc}
        all_species == UNION {m.rc[r].species : r \in DOMAIN m.rc}
        all_compartments == UNION {m.rc[r].compartments : r \in DOMAIN m.rc}
        allow == m.allow_unused_components
        unused == Raise("ValueError", "unused")
        m1 == IF all_parameters # m.pc
              THEN [m EXCEPT !.pc = m.pc \ (m.pc \ all_parameters)] ELSE m
        m2 == IF all_species # DOMAIN m.sc
              THEN [m1 EXCEPT !.sc = Restrict(m.sc, DOMAIN m.sc \ (DOMAIN m.sc \ all_species))]
              ELSE m1
        m3 == IF all_compartments # DOMAIN m.cc
              THEN [m2 EXCEPT !.cc = Restrict(m.cc, DOMAIN m.cc \ (DOMAIN m.cc \ all_compartments))]
              ELSE m2
    IN  IF all_parameters # m.pc /\ ~allow THEN [m |-> m, err |-> unused]
        ELSE IF all_species # DOMAIN m.sc /\ ~allow THEN [m |-> m1, err |-> unused]
        ELSE [m |-> m2, err |-> NoError]

\* Model._init_2_4_check_for_unused_parameters_species_compartments
init_2_4_check_for_unused_parameters_species_compartments(m) ==
    LET all_parameters == UNION {m.rc[r].parameters : r \in DOMAIN m.rc}
        all_species == UNION {m.rc[r].species : r \in DOMAIN m.rc}
        all_compartments == UNION {m.rc[r].compartments : r \in DOMAIN m.rc}
        allow == m.allow_unused_components
        unused == Raise("ValueError", "unused")
        m1 == IF all_parameters # m.pc
              THEN [m EXCEPT !.pc = m.pc \ (m.pc \ all_parameters)] ELSE m
        m2 == IF all_species # DOMAIN m.sc
              THEN [m1 EXCEPT !.sc = Restrict(m.sc, DOMAIN m.sc \ (DOMAIN m.sc \ all_species))]
              ELSE m1
        m3 == IF all_compartments # DOMAIN m.cc
              THEN [m2 EXCEPT !.cc = Restrict(m.cc, DOMAIN m.cc \ (DOMAIN m.cc \ all_compartments))]
              ELSE m2
    IN  IF all_parameters # m.pc /\ ~allow THEN [m |-> m, err |-> unused]
        ELSE IF all_species # DOMAIN m.sc /\ ~allow THEN [m |-> m1, err |-> unused]
        ELSE IF all_compartments # DOMAIN m.cc /\ ~allow THEN [m |-> m2, err |-> unused]
        ELSE [m |-> m3, err |-> NoError]

\* Model._init_2_5_link_compartments_to_species
init_2_5_link_compartments_to_species(m) ==
    IF \E sp \in DOMAIN m.sc : m.sc[sp].compartment_name \notin DOMAIN m.cc
    THEN [m |-> m, err |-> Raise("KeyError", "link")]
    ELSE [m |-> [m EXCEPT !.sc = [sp \in DOMAIN m.sc |->
                    [m.sc[sp] EXCEPT
                        !.compartment = m.sc[sp].compartment_name,
                        !.dimensionality = m.cc[m.sc[sp].compartment_name].dimensionality]]],
          err |-> NoError]

\* Model._init_2_6_link_species_to_compartments
init_2_6_link_species_to_compartments(m) ==
    LET placed(c) == m.cc[c].species \cup {sp \in DOMAIN m.sc : m.sc[sp].compartment = c}
    IN  [m |-> [m EXCEPT !.cc = [c \in DOMAIN m.cc |->
                    [m.cc[c] EXCEPT !.species = placed(c),
                                    !.num_species = Cardinality(placed(c))]]],
         err |-> NoError]

\* Model._init_2_7_get_species_compartment_indices: the species of every
\* compartment are numbered in the order compartment.species lists them
init_2_7_get_species_compartment_indices(m) ==
    LET holder(sp) == {c \in DOMAIN m.cc : sp \in m.cc[c].species}
        index(sp, c) == Cardinality({o \in m.cc[c].species : Rank(o) < Rank(sp)})
    IN  [m |-> [m EXCEPT !.sc = [sp \in DOMAIN m.sc |->
                    IF holder(sp) = {} THEN m.sc[sp]
                    ELSE [m.sc[sp] EXCEPT !.dof_index =
                             index(sp, CHOOSE c \in holder(sp) : TRUE)]]],
         err |-> NoError]

\* reaction.reaction_to_fluxes(): one flux per species the reaction affects
reaction_to_fluxes(name, r) == {<<name, sp>> : sp \in r.species}

\* one step of initialize(): the step's effect on the model, then the next
\* step, unless the step raised
ApplyStep(result, next) ==
    /\ model' = result.m
    /\ verr' = result.err
    /\ vstep' = IF result.err.kind # "none" THEN "failed" ELSE next
    /\ UNCHANGED <<before, run, first>>
    /\ UNCHANGED <<stepping, assembly>>

init_1_1 ==
    /\ vstep = "1_1"
    /\ ApplyStep(init_1_1_check_mesh_dimensionality(model), "1_2")

init_1_2 ==
    /\ vstep = "1_2"
    /\ ApplyStep(init_1_2_check_namespace_conflicts(model), "1_3")

init_1_3 ==
    /\ vstep = "1_3"
    /\ ApplyStep(init_1_3_check_parameter_dimensionality(model), "2_1")

init_2_1 ==
    /\ vstep = "2_1"
    /\ ApplyStep(init_2_1_reactions_to_symbolic_strings(model), "2_2")

init_2_2 ==
    /\ vstep = "2_2"
    /\ ApplyStep(init_2_2_check_reaction_validity(model), "2_3")

init_2_3 ==
    /\ vstep = "2_3"
    /\ ApplyStep(init_2_3_link_reaction_properties(model), "2_4")

init_2_4 ==
    /\ vstep = "2_4"
    /\ ApplyStep(init_2_4_check_for_unused_parameters_species_compartments(model), "2_5")

init_2_5 ==
    /\ vstep = "2_5"
    /\ ApplyStep(init_2_5_link_compartments_to_species(model), "2_6")

init_2_6 ==
    /\ vstep = "2_6"
    /\ ApplyStep(init_2_6_link_species_to_compartments(model), "2_7")

\* the last validation step; a second run of the validation steps ends here
init_2_7 ==
    /\ vstep = "2_7"
    /\ ApplyStep(init_2_7_get_species_compartment_indices(model),
                 IF run = 1 THEN "3" ELSE "revalidated")

\* Model._init_3 and Model._init_4: meshes and functions; they leave the
\* four containers of records and the flux container as they are
init_3_init_4 ==
    /\ vstep = "3"
    /\ vstep' = "5_1"
    /\ UNCHANGED <<model, verr, before, run, first>>
    /\ UNCHANGED <<stepping, assembly>>

\* Model._init_5_1_reactions_to_fluxes
init_5_1_reactions_to_fluxes ==
    /\ vstep = "5_1"
    /\ model' = [model EXCEPT !.fc =
                    model.fc \cup UNION {reaction_to_fluxes(r, model.rc[r]) : r \in DOMAIN model.rc}]
    /\ vstep' = "5_2"
    /\ UNCHANGED <<verr, before, run, first>>
    /\ UNCHANGED <<stepping, assembly>>

\* _init_1() and _init_2() are run again on the validated, unchanged registry
revalidate ==
    /\ vstep = "3"
    /\ run = 1
    /\ run' = 2
    /\ first' = model
    /\ vstep' = "1_1"
    /\ UNCHANGED <<model, verr, before>>
    /\ UNCHANGED <<stepping, assembly>>

\* ------------------------------------------------------------------------
\* Models handed to initialize()
\* ------------------------------------------------------------------------
\* a Model as constructed from the four containers, nothing derived yet
NewModel(pcs, scs, ccs, rcs, pdim, allow) ==
    [pc |-> pcs, sc |-> scs, cc |-> ccs, rc |-> rcs, fc |-> {},
     max_dim |-> -1, min_dim |-> -1,
     parent_mesh_dimensionality |-> pdim, allow_unused_components |-> allow]

CompartmentNames == {"c1", "c2", "c3"}

\* the dict that maps every name of S to itself
IdentityMap(S) == [n \in S |-> n]

\* the dict {key: value}
Single(key, value) == [k \in {key} |-> value]

OnOff == [k \in {"on", "off"} |-> IF k = "on" THEN "k1" ELSE "k2"]

\* mass-action reactions between the species A and B
MassActionReactions ==
    {Reaction(ty, sides[1], sides[2],
              IF ty = "mass_action" THEN OnOff ELSE Single("on", "k1"),
              IdentityMap(Range(sides[1]) \cup Range(sides[2])), <<>>, "") :
        ty \in {"mass_action", "mass_action_forward"},
        sides \in {<<<<"A">>, <<"B">>>>, <<<<"A">>, <<>>>>, <<<<"A", "B">>, <<>>>>}}

\* reactions with a rate string of their own: u stands for a species, J for
\* the parameter k1; one has no species at all; one has a third symbol that
\* stands for nothing, or is the name of a compartment or of a reaction
FreeformReactions ==
    {Reaction("custom", <<>>, <<>>, Single("J", "k1"), sm, <<"u", "J">>, "") :
        sm \in {Single("u", "A"), Single("u", "B"),
                [k \in {"u", "A"} |-> IF k = "u" THEN "A" ELSE "B"]}}
    \cup {Reaction("custom", <<>>, <<>>, Single("J", "k1"), IdentityMap({}), <<"J">>, ""),
          Reaction("custom", <<>>, <<>>, Single("J", "k1"), Single("u", "A"),
                   <<"u", "J", "w">>, ""),
          Reaction("custom", <<>>, <<>>, Single("J", "k1"), Single("u", "A"),
                   <<"u", "J", "c1">>, ""),
          Reaction("custom", <<>>, <<>>, Single("J", "k1"), Single("u", "A"),
                   <<"u", "J", "r1">>, "")}

\* a reaction of a type of the reaction database, and one without any rate law
OtherReactions ==
    {Reaction("leak", <<"A">>, <<>>, Single("J", "k1"), Single("u", "A"), <<>>, ""),
     Reaction("custom", <<"A">>, <<>>, Single("J", "k1"), Single("u", "A"), <<>>, "")}

\* the reactions r1 may be: any of the above, restricted to a domain or not
ReactionInputs ==
    {[r EXCEPT !.explicit_restriction_to_domain = dom] :
        r \in MassActionReactions \cup FreeformReactions \cup OtherReactions,
        dom \in {"", "c2", "c3"}}

\* the reaction B -> 0 at rate k2
Decay == Reaction("mass_action_forward", <<"B">>, <<>>, Single("on", "k2"),
                  IdentityMap({"B"}), <<>>, "")

\* A in c1 and B in c2 react across c3: a volume-surface-volume model
DefaultSpecies == [sp \in {"A", "B"} |-> Species(IF sp = "A" THEN "c1" ELSE "c2")]

DefaultCompartments ==
    [c \in CompartmentNames |->
        Compartment(IF c = "c3" THEN 2 ELSE 3, IntMarker(Rank(c) - Rank("c1") + 1))]

DefaultReactions ==
    Single("r1", Reaction("mass_action", <<"A">>, <<"B">>, OnOff,
                          IdentityMap({"A", "B"}), <<>>, "c3"))

DefaultModel ==
    NewModel({"k1", "k2"}, DefaultSpecies, DefaultCompartments, DefaultReactions,
             3, FALSE)

\* the step of _init_1 or _init_2 at a position of initialize()
step_at(position, m) ==
    CASE position = "1_2" -> init_1_2_check_namespace_conflicts(m)
      [] position = "1_3" -> init_1_3_check_parameter_dimensionality(m)
      [] position = "2_1" -> init_2_1_reactions_to_symbolic_strings(m)
      [] position = "2_2" -> init_2_2_check_reaction_validity(m)
      [] position = "2_3" -> init_2_3_link_reaction_properties(m)
      [] position = "2_4" -> init_2_4_check_for_unused_parameters_species_compartments(m)
      [] position = "2_5" -> init_2_5_link_compartments_to_species(m)
      [] position = "2_6" -> init_2_6_link_species_to_compartments(m)
      [] OTHER -> init_2_7_get_species_compartment_indices(m)

\* the step at a position runs unless an earlier step raised
Then(result, position) ==
    IF result.err.kind # "none" THEN result ELSE step_at(position, result.m)

\* Model._init_1 and Model._init_2 as initialize() runs them
validate(m) ==
    Then(Then(Then(Then(Then(Then(Then(Then(Then(
        init_1_1_check_mesh_dimensionality(m),
        "1_2"), "1_3"), "2_1"), "2_2"), "2_3"), "2_4"), "2_5"), "2_6"), "2_7")

\* a model that initialize() validated before the assembly and the time
\* stepping begin
Validated ==
    /\ model = validate(DefaultModel).m
    /\ vstep = "5_2"
    /\ verr = NoError
    /\ before = Records(DefaultModel)
    /\ run = 1
    /\ first = DefaultModel

\* ------------------------------------------------------------------------
\* Helpers of the time-stepping engine
\* ------------------------------------------------------------------------
Max(a, b) == IF a >= b THEN a ELSE b

Compartments == 1..num_active_compartments

\* the field the solve of step k leaves in every compartment
Iterate(k) == [c \in Compartments |-> k]

\* ------------------------------------------------------------------------
\* Parameters (self.pc)
\* ------------------------------------------------------------------------
\* one constant parameter, one closed-form function of time, one pre-integrated
ParameterNames == {"k_const", "k_expr", "k_preint"}

is_time_dependent(p) == p \in {"k_expr", "k_preint"}

use_preintegration(p) == p = "k_preint"

\* parameter.sym_expr evaluated at time tt:  k_expr(t) = t + 1
sym_expr(p, tt) == tt + 1

\* parameter.preint_sym_expr evaluated at time tt:  F(t) = t * t
preint_sym_expr(p, tt) == tt * tt

\* ------------------------------------------------------------------------
\* Step-size rules
\* ------------------------------------------------------------------------
\* check_dt_adjust with the crossing rule jumping straight to the checkpoint's
\* step size instead of max(tadjust - tnow, dtadjust)
check_dt_adjust_jump(tnow, dtnow, reset, adj, isNone) ==
    LET keep == [dt |-> dtnow, reset_dt |-> reset, adjust_dt |-> adj, exc |-> "none"]
    IN  IF isNone \/ Len(adj) = 0 THEN keep
        ELSE LET tnext    == tnow + dtnow
                 tadjust  == adj[1][1]
                 dtadjust == adj[1][2]
             IN  IF reset
                 THEN [dt |-> dtadjust, reset_dt |-> FALSE,
                       adjust_dt |-> Tail(adj), exc |-> "none"]
                 ELSE IF tadjust < tnow
                 THEN [keep EXCEPT !.exc = "AssertionError:tadjust"]
                 ELSE IF tnow < tadjust /\ tadjust <= tnext
                 THEN [dt |-> dtadjust, reset_dt |-> TRUE,
                       adjust_dt |-> adj, exc |-> "none"]
                 ELSE keep

\* check_dt_adjust with the crossing test 'tnow < tadjust < tnext'
check_dt_adjust_strict(tnow, dtnow, reset, adj, isNone) ==
    LET keep == [dt |-> dtnow, reset_dt |-> reset, adjust_dt |-> adj, exc |-> "none"]
    IN  IF isNone \/ Len(adj) = 0 THEN keep
        ELSE LET tnext    == tnow + dtnow
                 tadjust  == adj[1][1]
                 dtadjust == adj[1][2]
             IN  IF reset
                 THEN [dt |-> dtadjust, reset_dt |-> FALSE,
                       adjust_dt |-> Tail(adj), exc |-> "none"]
                 ELSE IF tadjust < tnow
                 THEN [keep EXCEPT !.exc = "AssertionError:tadjust"]
                 ELSE IF tnow < tadjust /\ tadjust < tnext
                 THEN [dt |-> Max(tadjust - tnow, dtadjust), reset_dt |-> TRUE,
                       adjust_dt |-> adj, exc |-> "none"]
                 ELSE keep

\* check_dt_adjust deleting the checkpoint as soon as a step would cross it
check_dt_adjust_pop_on_crossing(tnow, dtnow, reset, adj, isNone) ==
    LET keep == [dt |-> dtnow, reset_dt |-> reset, adjust_dt |-> adj, exc |-> "none"]
    IN  IF isNone \/ Len(adj) = 0 THEN keep
        ELSE LET tnext    == tnow + dtnow
                 tadjust  == adj[1][1]
                 dtadjust == adj[1][2]
             IN  IF reset
                 THEN [dt |-> dtadjust, reset_dt |-> FALSE,
                       adjust_dt |-> Tail(adj), exc |-> "none"]
                 ELSE IF tadjust < tnow
                 THEN [keep EXCEPT !.exc = "AssertionError:tadjust"]
                 ELSE IF tnow < tadjust /\ tadjust <= tnext
                 THEN [dt |-> Max(tadjust - tnow, dtadjust), reset_dt |-> TRUE,
                       adjust_dt |-> Tail(adj), exc |-> "none"]
                 ELSE keep

\* Model.check_dt_adjust: the step size, pending flag and checkpoint list it
\* leaves, or the AssertionError it raises
check_dt_adjust(tnow, dtnow, reset, adj, isNone) ==
    LET keep == [dt |-> dtnow, reset_dt |-> reset, adjust_dt |-> adj, exc |-> "none"]
    IN  IF isNone \/ Len(adj) = 0 THEN keep
        ELSE LET tnext    == tnow + dtnow
                 tadjust  == adj[1][1]
                 dtadjust == adj[1][2]
             IN  IF reset
                 THEN [dt |-> dtadjust, reset_dt |-> FALSE,
                       adjust_dt |-> Tail(adj), exc |-> "none"]
                 ELSE IF tadjust < tnow
                 THEN [keep EXCEPT !.exc = "AssertionError:tadjust"]
                 ELSE IF tnow < tadjust /\ tadjust <= tnext
                 THEN [dt |-> Max(tadjust - tnow, dtadjust), reset_dt |-> TRUE,
                       adjust_dt |-> adj, exc |-> "none"]
                 ELSE keep

\* check_dt_pass_tfinal with the clamp left out
check_dt_pass_tfinal_noclamp(tnow, dtnow, tfinal) == dtnow

\* Model.check_dt_pass_tfinal: the step size after the final-time clamp
check_dt_pass_tfinal(tnow, dtnow, tfinal) ==
    LET tnext == tnow + dtnow
    IN  IF tnext > tfinal THEN tfinal - tnow ELSE dtnow

\* ------------------------------------------------------------------------
\* Solution fields
\* ------------------------------------------------------------------------
\* a solver bound to the previous-step field instead of the current one
SolverWrite_previous(uu, unew) == [uu EXCEPT !["n"] = unew]

\* self.solver.solve(...): the backend writes its iterate into the current
\* field u['u'], whether or not it converges
SolverWrite(uu, unew) == [uu EXCEPT !["u"] = unew]

\* set(self.u.keys()).remove('u'): set.remove works in place and returns None
DefaultUkeys(keys) == [is_None |-> TRUE, keys |-> {}]

\* Model.update_solution(ukeys): copy u['u'] into u[ukey], compartment by
\* compartment; iterating over None is a TypeError, an unknown key a ValueError
update_solution(uu, ukeys) ==
    IF ukeys.is_None THEN [u |-> uu, exc |-> "TypeError"]
    ELSE IF \E k \in ukeys.keys : k \notin DOMAIN uu THEN [u |-> uu, exc |-> "ValueError"]
    ELSE [u |-> [k \in DOMAIN uu |->
                    IF k \in ukeys.keys
                    THEN [c \in Compartments |-> uu["u"][c]]
                    ELSE uu[k]],
          exc |-> "none"]

\* ------------------------------------------------------------------------
\* One time step
\* ------------------------------------------------------------------------
\* monolithic_solve with a clock that is put back when the solve raises
monolithic_solve_rollback(raised, its) ==
    LET adj == check_dt_adjust(t, dt, reset_dt, adjust_dt, adjust_dt_None)
    IN  /\ idx' = idx + 1
        /\ IF adj.exc # "none"
           THEN /\ exc' = adj.exc
                /\ solver_ok' = FALSE
                /\ UNCHANGED <<t, tn, dt, idx_nl, reset_dt, adjust_dt, consumed, u>>
           ELSE LET new_dt == check_dt_pass_tfinal(t, adj.dt, final_t)
                    solved == SolverWrite(u, Iterate(idx + 1))
                    nonconv == use_snes /\ its > max_it
                    upd == update_solution(solved, DefaultUkeys(DOMAIN solved))
                IN  /\ dt' = new_dt
                    /\ reset_dt' = adj.reset_dt
                    /\ adjust_dt' = adj.adjust_dt
                    /\ consumed' = IF Len(adj.adjust_dt) < Len(adjust_dt)
                                   THEN Append(consumed, adjust_dt[1]) ELSE consumed
                    /\ tn' = IF raised THEN tn ELSE t
                    /\ t' = IF raised THEN t ELSE t + new_dt
                    /\ idx_nl' = IF use_snes /\ ~raised THEN Append(idx_nl, its) ELSE idx_nl
                    /\ solver_ok' = (~raised /\ ~nonconv)
                    /\ IF raised THEN u' = solved /\ exc' = "SolverError"
                       ELSE IF nonconv THEN u' = solved /\ exc' = "AssertionError:max_it"
                       ELSE u' = upd.u /\ exc' = upd.exc
        /\ UNCHANGED <<adjust_dt_None, final_t, use_snes, pvalue, pc_items>>
        /\ UNCHANGED <<assembly, validation>>

\* Model.monolithic_solve.  raised: the backend raises from solve();
\* its: the iteration count it reports.
\* The result is the state the call leaves, with the exception that ended it.
monolithic_solve(raised, its) ==
    LET adj == check_dt_adjust(t, dt, reset_dt, adjust_dt, adjust_dt_None)
    IN  /\ idx' = idx + 1
        /\ IF adj.exc # "none"
           THEN /\ exc' = adj.exc
                /\ solver_ok' = FALSE
                /\ UNCHANGED <<t, tn, dt, idx_nl, reset_dt, adjust_dt, consumed, u>>
           ELSE LET new_dt == check_dt_pass_tfinal(t, adj.dt, final_t)
                    solved == SolverWrite(u, Iterate(idx + 1))
                    nonconv == use_snes /\ its > max_it
                    upd == update_solution(solved, DefaultUkeys(DOMAIN solved))
                IN  /\ dt' = new_dt
                    /\ reset_dt' = adj.reset_dt
                    /\ adjust_dt' = adj.adjust_dt
                    /\ consumed' = IF Len(adj.adjust_dt) < Len(adjust_dt)
                                   THEN Append(consumed, adjust_dt[1]) ELSE consumed
                    /\ tn' = t
                    /\ t' = t + new_dt
                    /\ idx_nl' = IF use_snes /\ ~raised THEN Append(idx_nl, its) ELSE idx_nl
                    /\ solver_ok' = (~raised /\ ~nonconv)
                    /\ IF raised THEN u' = solved /\ exc' = "SolverError"
                       ELSE IF nonconv THEN u' = solved /\ exc' = "AssertionError:max_it"
                       ELSE u' = upd.u /\ exc' = upd.exc
        /\ UNCHANGED <<adjust_dt_None, final_t, use_snes, pvalue, pc_items>>
        /\ UNCHANGED <<assembly, validation>>

\* what the backend may report for one solve
SolverOutcomes == [raised : BOOLEAN, its : (max_it - 1)..(max_it + 1)]

\* a driver script calls model.monolithic_solve() (examples/example1)
DriverStep ==
    /\ pc = "script"
    /\ idx < MaxSteps
    /\ \E o \in SolverOutcomes : monolithic_solve(o.raised, o.its)
    /\ UNCHANGED pc

\* Model.solve is called: control enters its while loop
solve ==
    /\ pc = "script"
    /\ idx = 0
    /\ pc' = "solve"
    /\ UNCHANGED <<t, tn, dt, idx, idx_nl, reset_dt, adjust_dt, adjust_dt_None,
                   final_t, use_snes, u, pvalue, pc_items, consumed, exc, solver_ok>>
    /\ UNCHANGED <<assembly, validation>>

\* Model.solve_single_timestep, one iteration of the loop of Model.solve:
\* an exception leaves solve(); end_simulation (t >= final_t) ends the loop
solve_single_timestep ==
    /\ pc = "solve"
    /\ idx < MaxSteps
    /\ \E o \in SolverOutcomes : monolithic_solve(o.raised, o.its)
    /\ pc' = IF exc' # "none" THEN "solve_raised"
             ELSE IF t' >= final_t THEN "solve_returned"
             ELSE "solve"

\* ------------------------------------------------------------------------
\* Specification of the time-stepping engine
\* ------------------------------------------------------------------------
Checkpoints == (1..MaxT) \X (1..MaxDt)

\* the lists config.solver['adjust_dt'] may hold: checkpoints in increasing
\* order of time
CheckpointLists ==
    {l \in UNION {[1..n -> Checkpoints] : n \in 0..MaxChk} :
        \A i \in 1..(Len(l) - 1) : l[i][1] < l[i + 1][1]}

\* Model.__post_init__ and the end of initialize(): t = 0, both fields hold the
\* initial condition, parameters hold their value at t = 0
Init ==
    /\ t = 0
    /\ tn = 0
    /\ dt \in 1..MaxDt
    /\ idx = 0
    /\ idx_nl = <<>>
    /\ reset_dt = FALSE
    /\ adjust_dt_None \in BOOLEAN
    /\ adjust_dt \in IF adjust_dt_None THEN {<<>>} ELSE CheckpointLists
    /\ final_t \in 0..MaxT
    /\ use_snes \in BOOLEAN
    /\ u = [k \in {"u", "n"} |-> [c \in Compartments |-> 0]]
    /\ pvalue = [p \in ParameterNames |->
                    IF is_time_dependent(p) /\ ~use_preintegration(p)
                    THEN sym_expr(p, 0) ELSE 1]
    /\ pc_items = <<>>
    /\ consumed = <<>>
    /\ exc = "none"
    /\ solver_ok = FALSE
    /\ pc = "script"
    /\ cc = [i \in Compartments |-> 1]
    /\ mpi_size = 1
    /\ stage = "problem"
    /\ active = [i \in Compartments |-> i]
    /\ dof_index = [i \in Compartments |-> i - 1]
    /\ ulen = num_active_compartments
    /\ forms = {}
    /\ Fsum = {}
    /\ Fblocks = <<>>
    /\ Jblocks = <<>>
    /\ block_sizes = <<>>
    /\ bexc = "none"
    /\ Validated

Next == DriverStep \/ solve \/ solve_single_timestep

Spec == Init /\ [][Next]_vars

\* ------------------------------------------------------------------------
\* Properties of the time-stepping engine
\* ------------------------------------------------------------------------
\* a checkpoint list as the claims assume it: times strictly increasing and
\* after the start time 0, reset step sizes positive
WellFormed(list) ==
    /\ \A i \in 1..Len(list) : list[i][1] > 0 /\ list[i][2] > 0
    /\ \A i \in 1..(Len(list) - 1) : list[i][1] < list[i + 1][1]

\* the checkpoint list as configured
configured == consumed \o adjust_dt

\* the last call of monolithic_solve got as far as invoking the solver
solver_invoked == idx > 0 /\ exc # "AssertionError:tadjust"

Min(a, b) == IF a <= b THEN a ELSE b

\* C1: with no reset pending and a head checkpoint (tc, dc) such that
\* t < tc <= t + dt, tc - t >= dc and tc <= final_t, one step of
\* monolithic_solve uses dt = tc - t and ends with t = tc, the checkpoint
\* still in the list and the reset pending; the step that follows (reset
\* pending at t = tc) uses dt = dc, or final_t - t when that is smaller, and
\* removes the checkpoint from the list.
C1_StepReachesCheckpointThenResets ==
    [][ (idx' = idx + 1 /\ ~adjust_dt_None /\ adjust_dt # <<>>) =>
          LET tc == adjust_dt[1][1]
              dc == adjust_dt[1][2]
          IN  /\ (~reset_dt /\ t < tc /\ tc <= t + dt /\ tc - t >= dc /\ tc <= final_t)
                    => /\ t' = tc
                       /\ dt' = tc - t
                       /\ reset_dt'
                       /\ adjust_dt' = adjust_dt
              /\ (reset_dt /\ t = tc)
                    => /\ dt' = Min(dc, final_t - t)
                       /\ t' = t + dt'
                       /\ ~reset_dt'
                       /\ adjust_dt' = Tail(adjust_dt)
      ]_vars

\* C1 witness: a step began exactly at the time of the checkpoint it then
\* removed and used that checkpoint's step size
C1_Witness ==
    /\ consumed # <<>>
    /\ tn = consumed[Len(consumed)][1]
    /\ dt = consumed[Len(consumed)][2]
    /\ t = tn + dt
    /\ ~reset_dt

C3_SolveEndsOnlyByReachingFinalTime ==
    (pc = "solve_raised" /\ final_t > 0 /\ WellFormed(configured))
        => exc \in {"SolverError", "AssertionError:max_it"}

\* C4 (as claimed): with a well-formed checkpoint list, check_dt_adjust never
\* raises the AssertionError 'tadjust ... is smaller than current time'.
C4_NoCheckpointOrderingError ==
    WellFormed(configured) => exc # "AssertionError:tadjust"

\* C5 (as claimed): after a step whose solve succeeded, the previous-step
\* field of every active compartment equals the freshly solved field.
C5_PreviousFieldIsSolvedField ==
    solver_ok => \A c \in Compartments : u["n"][c] = u["u"][c]

\* C6: a step in which the solve raises, or is rejected as non-converged,
\* leaves the previous-step field of every active compartment as it was.
C6_FailedStepKeepsPreviousField ==
    [][ (idx' = idx + 1 /\ exc' \in {"SolverError", "AssertionError:max_it"})
            => \A c \in Compartments : u'["n"][c] = u["n"][c] ]_vars

\* C6 witness: the solve failed after it had written an iterate into the
\* current field, and the previous-step field still holds the old values
C6_Witness ==
    /\ exc \in {"SolverError", "AssertionError:max_it"}
    /\ \E c \in Compartments : u["u"][c] # u["n"][c]

\* C7 (as claimed): on the SNES path a solve that returns with an iteration
\* count of max_it or more ends the step with the non-convergence error.
C7_IterationLimitReachedIsRejected ==
    ( /\ use_snes
      /\ solver_invoked
      /\ exc # "SolverError"
      /\ idx_nl # <<>>
      /\ idx_nl[Len(idx_nl)] >= max_it )
        => exc = "AssertionError:max_it"

\* C8 (as claimed): when the solver has been invoked for a step, every
\* time-dependent parameter holds its value for the new time: the closed-form
\* one its expression at t, the pre-integrated one (F(t) - F(tn)) / dt.
C8_ParametersUpdatedForNewTime ==
    solver_invoked =>
        \A p \in ParameterNames :
            is_time_dependent(p) =>
                IF use_preintegration(p)
                THEN pvalue[p] * dt = preint_sym_expr(p, t) - preint_sym_expr(p, tn)
                ELSE pvalue[p] = sym_expr(p, t)

\* ------------------------------------------------------------------------
\* Active compartments and functions (Model._init_4)
\* ------------------------------------------------------------------------
\* the list L without its i-th element
RemoveAt(L, i) == [k \in 1..(Len(L) - 1) |-> IF k < i THEN L[k] ELSE L[k + 1]]

RECURSIVE RemoveWhileIterating(_, _, _)
\* lines 519-521: 'for compartment in L: if compartment.num_species < 1:
\* L.remove(compartment)'.  The iterator of a Python list is a position: it
\* moves on by one after every pass, also after a pass that removed the
\* element at that position.
RemoveWhileIterating(reg, L, i) ==
    IF i > Len(L) THEN L
    ELSE IF reg[L[i]] < 1
         THEN RemoveWhileIterating(reg, RemoveAt(L, i), i + 1)
         ELSE RemoveWhileIterating(reg, L, i + 1)

\* Model._init_4_1_get_active_compartments
init_4_1_get_active_compartments ==
    /\ stage = "registry"
    /\ LET L == RemoveWhileIterating(cc, [i \in 1..Len(cc) |-> i], 1)
       IN  /\ active' = L
           /\ dof_index' = [c \in 1..Len(cc) |->
                              IF \E k \in 1..Len(L) : L[k] = c
                              THEN (CHOOSE k \in 1..Len(L) : L[k] = c) - 1
                              ELSE -1]
    /\ stage' = "active"
    /\ UNCHANGED <<cc, mpi_size, ulen, forms, Fsum, Fblocks, Jblocks, block_sizes, bexc>>
    /\ UNCHANGED <<stepping, validation>>

\* Model._init_4_2 .. _init_4_7: one function space and one pair of functions
\* per active compartment, also for one without species (line 541).
\* _init_4_6 asserts, in a serial run only, that the size of each function is
\* compartment.num_dofs; that attribute is set outside this module, so for a
\* compartment without species the assertion may hold or fail.
init_4_dolfin_functions ==
    /\ stage = "active"
    /\ \E size_ok \in BOOLEAN :
          /\ ~size_ok => /\ mpi_size = 1
                         /\ \E k \in 1..Len(active) : cc[active[k]] < 1
          /\ IF size_ok
             THEN stage' = "functions" /\ bexc' = "none"
             ELSE stage' = "init_4_failed" /\ bexc' = "AssertionError"
    /\ UNCHANGED <<cc, mpi_size, active, dof_index, ulen, forms, Fsum,
                   Fblocks, Jblocks, block_sizes>>
    /\ UNCHANGED <<stepping, validation>>

\* ------------------------------------------------------------------------
\* Block system (Model._init_5_2, Model._init_5_3, Model.get_block_system)
\* ------------------------------------------------------------------------
\* A form is a set of terms.  A term of a residual has the index (part) of the
\* compartment its test function lives in, the compartments whose unknown
\* field it depends on (deps), the compartment whose mesh it is integrated
\* over (dom) and, once differentiated, the compartment it was differentiated
\* by (wrt, else -1).
Parts(n) == 0..(n - 1)

Term(part, deps, dom) == [part |-> part, deps |-> deps, dom |-> dom, wrt |-> -1]

\* the compartments whose species a reaction may couple: one or two of `dest`
Couplings(dest) == {ds \in SUBSET dest : Cardinality(ds) \in 1..2}

\* forms a flux may contribute: it lands in a compartment of `dest`, involves
\* the unknowns of one or two compartments of `dest` and is integrated over
\* the mesh (domOf) of one of the compartments involved
FluxTerms(dest, domOf) ==
    UNION {{Term(i, ds, domOf[j]) : j \in ds \cup {i}} :
              i \in dest, ds \in Couplings(dest)}

RECURSIVE SubsetsUpTo(_, _)
\* the subsets of S with at most k elements
SubsetsUpTo(S, k) ==
    IF k = 0 THEN {{}}
    ELSE LET smaller == SubsetsUpTo(S, k - 1)
         IN  smaller \cup {p \cup {x} : p \in smaller, x \in S}

\* self.fc of a model: at most MaxFlux fluxes
FluxSets(dest, domOf) == SubsetsUpTo(FluxTerms(dest, domOf), MaxFlux)

\* diffusion, mass_u (both linear in the compartment's own unknown) and
\* mass_un (previous field only) forms of the species of the compartment with
\* index i, integrated over its mesh dm; none without species
SpeciesForms(i, dm, nspecies) ==
    IF nspecies < 1 THEN {} ELSE {Term(i, {i}, dm), Term(i, {}, dm)}

RECURSIVE SortedSeq(_)
\* the elements of a finite set of numbers in increasing order
SortedSeq(S) ==
    IF S = {} THEN <<>>
    ELSE LET m == CHOOSE x \in S : \A y \in S : x <= y
         IN  <<m>> \o SortedSeq(S \ {m})

\* d.extract_blocks(Fsum): one block per test-function part that occurs in
\* the form, in increasing order of part
extract_blocks(F) ==
    LET ps == SortedSeq({tm.part : tm \in F})
    IN  [k \in 1..Len(ps) |-> {tm \in F : tm.part = ps[k]}]

\* Fi.arguments()[0].part()
PartOf(Fi) == (CHOOSE tm \in Fi : TRUE).part

\* expand_derivatives(d.derivative(Fi, uj)): the terms of Fi that depend on
\* the unknown of compartment j, differentiated by it
derivative(Fi, j) == {[tm EXCEPT !.wrt = j] : tm \in {x \in Fi : j \in x.deps}}

\* ufl.form.sub_forms_by_domain(F): F split by integration domain
sub_forms_by_domain(F) ==
    LET ds == SortedSeq({tm.dom : tm \in F})
    IN  [k \in 1..Len(ds) |-> {tm \in F : tm.dom = ds[k]}]

\* d.cpp.fem.Form(rank, 0), the empty placeholder of a given rank
EmptyForm(rank) == [rank |-> rank, terms |-> {}]

\* d.Form(F), a compiled form
CompiledForm(rank, F) == [rank |-> rank, terms |-> F]

NoneBlock == [is_None |-> TRUE, terms |-> {}]

Block(F) == [is_None |-> FALSE, terms |-> F]

\* lines 768-772: for Fi in Fblock: for uj in u: J.append(dFi/duj)
JacobianLoop(Fblock, n) ==
    [k \in 1..(Len(Fblock) * n) |->
        derivative(Fblock[((k - 1) \div n) + 1], (k - 1) % n)]

\* lines 781-785: placeholders for the parts that have no block
Placeholders(Fblock, n) ==
    IF Len(Fblock) # n
    THEN [p \in 1..n |->
            IF \E k \in 1..Len(Fblock) : PartOf(Fblock[k]) = p - 1
            THEN Block(Fblock[CHOOSE k \in 1..Len(Fblock) : PartOf(Fblock[k]) = p - 1])
            ELSE NoneBlock]
    ELSE [k \in 1..Len(Fblock) |-> Block(Fblock[k])]

\* lines 794-807: one list of compiled sub-forms per residual block
ResidualList(Fblock) ==
    [k \in 1..Len(Fblock) |->
        IF Fblock[k].is_None \/ Fblock[k].terms = {}
        THEN <<EmptyForm(1)>>
        ELSE LET subs == sub_forms_by_domain(Fblock[k].terms)
             IN  [m \in 1..Len(subs) |->
                    IF subs[m] = {} THEN EmptyForm(1) ELSE CompiledForm(1, subs[m])]]

\* lines 811-820: one list of compiled sub-forms per Jacobian block
JacobianList(J) ==
    [k \in 1..Len(J) |->
        IF J[k] = {} THEN <<EmptyForm(2)>>
        ELSE LET subs == sub_forms_by_domain(J[k])
             IN  [m \in 1..Len(subs) |-> CompiledForm(2, subs[m])]]

\* Model.get_block_system(Fsum, u) for a list u of n unknown fields: the three
\* lists it returns, or the AssertionError of its two coherence checks
get_block_system(F, n) ==
    LET Fblock0 == extract_blocks(F)
        J       == JacobianLoop(Fblock0, n)
        Fblock  == Placeholders(Fblock0, n)
        failed  == [exc |-> "AssertionError", Flist |-> <<>>, Jlist |-> <<>>,
                    block_sizes |-> <<>>]
    IN  IF Len(J) # n * n THEN failed
        ELSE IF Len(Fblock) # n THEN failed
        ELSE [exc |-> "none",
              Flist |-> ResidualList(Fblock),
              Jlist |-> JacobianList(J),
              block_sizes |-> [j \in 1..n |-> <<"dim", j - 1>>]]

\* the indices of the active compartments that hold species
SpeciesParts == {k - 1 : k \in {m \in 1..Len(active) : cc[active[m]] >= 1}}

\* Model._init_5_2_create_variational_forms: the forms of the fluxes, each on
\* a species, then the diffusion and mass forms of every species
init_5_2_create_variational_forms ==
    /\ stage = "functions"
    /\ \E fluxes \in FluxSets(SpeciesParts, [i \in SpeciesParts |-> active[i + 1]]) :
          forms' = fluxes \cup
                   UNION {SpeciesForms(k - 1, active[k], cc[active[k]]) : k \in 1..Len(active)}
    /\ stage' = "forms"
    /\ UNCHANGED <<cc, mpi_size, active, dof_index, ulen, Fsum, Fblocks, Jblocks,
                   block_sizes, bexc>>
    /\ UNCHANGED <<stepping, validation>>

\* Model._init_5_3_setup_variational_problem_and_solver: sum the forms and
\* build the block system for the functions of the active compartments
init_5_3_setup_variational_problem_and_solver ==
    /\ stage = "forms"
    /\ LET r == get_block_system(forms, Len(active))
       IN  /\ Fsum' = forms
           /\ ulen' = Len(active)
           /\ Fblocks' = r.Flist
           /\ Jblocks' = r.Jlist
           /\ block_sizes' = r.block_sizes
           /\ bexc' = r.exc
           /\ stage' = IF r.exc = "none" THEN "problem" ELSE "init_5_failed"
    /\ UNCHANGED <<cc, mpi_size, active, dof_index, forms>>
    /\ UNCHANGED <<stepping, validation>>

\* the residual of a registry all of whose compartments have an unknown
\* field while only those with species have forms
PartialResiduals(reg) ==
    LET present == {c - 1 : c \in {k \in 1..Len(reg) : reg[k] >= 1}}
    IN  {fluxes \cup UNION {SpeciesForms(i, i + 1, reg[i + 1]) : i \in present} :
            fluxes \in FluxSets(present, [i \in present |-> i + 1])}

\* the static method Model.get_block_system called directly with one unknown
\* field per compartment of the registry, so with a residual that need not
\* have a block for every unknown field
get_block_system_call ==
    /\ stage = "registry"
    /\ \E F \in PartialResiduals(cc) :
          LET r == get_block_system(F, Len(cc))
          IN  /\ Fsum' = F
              /\ ulen' = Len(cc)
              /\ Fblocks' = r.Flist
              /\ Jblocks' = r.Jlist
              /\ block_sizes' = r.block_sizes
              /\ bexc' = r.exc
    /\ stage' = "called"
    /\ UNCHANGED <<cc, mpi_size, active, dof_index, forms>>
    /\ UNCHANGED <<stepping, validation>>

\* registries that pass validation: every compartment is used by a reaction,
\* as the home of a species or as an explicit restriction only (no species),
\* and some compartment holds a species
Registries ==
    {reg \in UNION {[1..n -> 0..MaxSpecies] : n \in 1..MaxComp} :
        \E c \in 1..Len(reg) : reg[c] >= 1}

\* the state after _init_3: the registry is validated and linked, no active
\* compartment, function or form exists yet
InitAssembly ==
    /\ cc \in Registries
    /\ mpi_size \in {1, 2}
    /\ stage = "registry"
    /\ active = <<>>
    /\ dof_index = [c \in 1..Len(cc) |-> -1]
    /\ ulen = 0
    /\ forms = {}
    /\ Fsum = {}
    /\ Fblocks = <<>>
    /\ Jblocks = <<>>
    /\ block_sizes = <<>>
    /\ bexc = "none"
    /\ t = 0
    /\ tn = 0
    /\ dt = 1
    /\ idx = 0
    /\ idx_nl = <<>>
    /\ reset_dt = FALSE
    /\ adjust_dt_None = TRUE
    /\ adjust_dt = <<>>
    /\ final_t = 1
    /\ use_snes = TRUE
    /\ u = [k \in {"u", "n"} |-> [c \in Compartments |-> 0]]
    /\ pvalue = [p \in ParameterNames |-> 1]
    /\ pc_items = <<>>
    /\ consumed = <<>>
    /\ exc = "none"
    /\ solver_ok = FALSE
    /\ pc = "script"
    /\ Validated

NextAssembly ==
    \/ init_4_1_get_active_compartments
    \/ init_4_dolfin_functions
    \/ init_5_2_create_variational_forms
    \/ init_5_3_setup_variational_problem_and_solver
    \/ get_block_system_call

SpecAssembly == InitAssembly /\ [][NextAssembly]_vars

\* ------------------------------------------------------------------------
\* Properties of the block system
\* ------------------------------------------------------------------------
\* the residual block of the compartment with index i: the terms of Fsum
\* tested in it
ResidualOf(i) == {tm \in Fsum : tm.part = i}

\* the compiled Jacobian block expected for row i, column j
ExpectedJacobian(i, j) == JacobianList(<<derivative(ResidualOf(i), j)>>)[1]

\* C9 (as claimed): when initialize() reaches get_block_system for a valid
\* model with n >= 1 active compartments, the call raises no assertion and
\* returns n residual entries and n * n Jacobian entries, entry i * n + j
\* (counted from 0) being the derivative of compartment i's residual by
\* compartment j's unknown.
C9_BlockCounts ==
    stage \in {"problem", "init_5_failed"} =>
        /\ bexc = "none"
        /\ Len(Fblocks) = Len(active)
        /\ Len(Jblocks) = Len(active) * Len(active)
        /\ \A i \in Parts(Len(active)) : \A j \in Parts(Len(active)) :
              Jblocks[i * Len(active) + j + 1] = ExpectedJacobian(i, j)

\* the compartments that have a block in the partition of Fsum
PresentParts == {tm.part : tm \in Fsum}

\* C10 (as claimed): when only a strict subset of the n compartments has a
\* residual block, get_block_system succeeds, puts an empty placeholder at
\* the index of every missing compartment, keeps the other blocks at their
\* own index and returns n * n Jacobian entries.
C10_MissingBlocksGetPlaceholders ==
    (stage = "called" /\ PresentParts # Parts(ulen)) =>
        /\ bexc = "none"
        /\ Len(Fblocks) = ulen
        /\ \A i \in Parts(ulen) :
              IF i \in PresentParts
              THEN Fblocks[i + 1] = ResidualList(<<Block(ResidualOf(i))>>)[1]
              ELSE Fblocks[i + 1] = <<EmptyForm(1)>>
        /\ Len(Jblocks) = ulen * ulen

\* ------------------------------------------------------------------------
\* Specification of the validation
\* ------------------------------------------------------------------------
\* cell_marker values: one marker, or a list of at most MaxMarkLen markers
MarkerValues ==
    {IntMarker(mk) : mk \in 0..MaxMarker}
    \cup {ListMarker(l) : l \in UNION {[1..n -> 0..MaxMarker] : n \in 1..MaxMarkLen}}

WithMarkers(ccs, marker) == [c \in DOMAIN ccs |-> [ccs[c] EXCEPT !.cell_marker = marker[c]]]

WithDimensions(ccs, dim) == [c \in DOMAIN ccs |-> [ccs[c] EXCEPT !.dimensionality = dim[c]]]

\* a few marker assignments: distinct, one 0, one shared by two compartments
MarkerCases ==
    {[c \in CompartmentNames |-> DefaultCompartments[c].cell_marker],
     [c \in CompartmentNames |-> IF c = "c1" THEN IntMarker(0)
                                 ELSE DefaultCompartments[c].cell_marker],
     [c \in CompartmentNames |-> IF c = "c2" THEN ListMarker(<<4, 1>>)
                                 ELSE DefaultCompartments[c].cell_marker]}

\* parameters k1 and k2, and possibly one more whose name is taken by a
\* species, a compartment or a reaction, or is protected
ParameterSets == {{"k1", "k2"} \cup extra : extra \in {{}, {"A"}, {"c1"}, {"r1"}, {"t"}}}

\* models that differ in dimensionalities, names and markers
DimensionModels ==
    {NewModel(pcs, DefaultSpecies,
              WithMarkers(WithDimensions(DefaultCompartments, dim), marker),
              DefaultReactions, pdim, allow) :
        pcs \in ParameterSets, dim \in [CompartmentNames -> 1..3],
        marker \in MarkerCases, pdim \in 2..3, allow \in BOOLEAN}

\* models that differ in the markers of c1 and c2
MarkerModels ==
    {NewModel({"k1", "k2"}, DefaultSpecies,
              WithMarkers(DefaultCompartments,
                          [c \in CompartmentNames |->
                              IF c = "c1" THEN m1 ELSE IF c = "c2" THEN m2 ELSE IntMarker(1)]),
              DefaultReactions, 3, FALSE) :
        m1 \in MarkerValues, m2 \in MarkerValues}

\* models that differ in where the species live, in the reaction r1 and in
\* whether there is a second reaction
ReactionModels ==
    {NewModel({"k1", "k2"},
              [sp \in {"A", "B"} |-> Species(IF sp = "A" THEN homeA ELSE homeB)],
              WithDimensions(DefaultCompartments, dim),
              IF second THEN [r \in {"r1", "r2"} |-> IF r = "r1" THEN r1 ELSE Decay]
              ELSE Single("r1", r1),
              3, allow) :
        homeA \in CompartmentNames, homeB \in CompartmentNames,
        dim \in [CompartmentNames -> 2..3], r1 \in ReactionInputs,
        second \in BOOLEAN, allow \in BOOLEAN}

\* initialize() is called on a model whose records the user defined
InitValidation ==
    /\ \/ model \in DimensionModels
       \/ model \in MarkerModels
       \/ model \in ReactionModels
    /\ vstep = "1_1"
    /\ verr = NoError
    /\ before = Records(model)
    /\ run = 1
    /\ first = model
    /\ t = 0
    /\ tn = 0
    /\ dt = 1
    /\ idx = 0
    /\ idx_nl = <<>>
    /\ reset_dt = FALSE
    /\ adjust_dt_None = TRUE
    /\ adjust_dt = <<>>
    /\ final_t = 1
    /\ use_snes = TRUE
    /\ u = [k \in {"u", "n"} |-> [c \in Compartments |-> 0]]
    /\ pvalue = [p \in ParameterNames |-> 1]
    /\ pc_items = <<>>
    /\ consumed = <<>>
    /\ exc = "none"
    /\ solver_ok = FALSE
    /\ pc = "script"
    /\ cc = <<1>>
    /\ mpi_size = 1
    /\ stage = "registry"
    /\ active = <<>>
    /\ dof_index = <<-1>>
    /\ ulen = 0
    /\ forms = {}
    /\ Fsum = {}
    /\ Fblocks = <<>>
    /\ Jblocks = <<>>
    /\ block_sizes = <<>>
    /\ bexc = "none"

NextValidation ==
    \/ init_1_1
    \/ init_1_2
    \/ init_1_3
    \/ init_2_1
    \/ init_2_2
    \/ init_2_3
    \/ init_2_4
    \/ init_2_5
    \/ init_2_6
    \/ init_2_7
    \/ init_3_init_4
    \/ init_5_1_reactions_to_fluxes
    \/ revalidate

SpecValidation == InitValidation /\ [][NextValidation]_vars

\* ------------------------------------------------------------------------
\* Properties of the validation
\* ------------------------------------------------------------------------
\* the names of the records of kind k in the records b
NamesOf(b, k) ==
    IF k = "parameter" THEN b.pc
    ELSE IF k = "species" THEN DOMAIN b.sc
    ELSE IF k = "compartment" THEN DOMAIN b.cc
    ELSE DOMAIN b.rc

Kinds == {"parameter", "species", "compartment", "reaction"}

\* two entities of the records b share a name
SharedName(b) ==
    \E k1 \in Kinds : \E k2 \in Kinds \ {k1} : NamesOf(b, k1) \cap NamesOf(b, k2) # {}

\* C11 (as claimed): when two entities of the model share a name,
\* initialize() fails in the namespace check, and no reaction has been
\* converted to fluxes by then.
C11_SharedNameFailsInNamespaceCheck ==
    (SharedName(before) /\ vstep \notin {"1_1", "1_2"}) =>
        /\ vstep = "failed"
        /\ verr.check = "namespace"
        /\ model.fc = {}

\* some name of the records b is shared or protected
NamespaceViolated(b) ==
    \/ SharedName(b)
    \/ \E k \in Kinds : NamesOf(b, k) \cap protected_names # {}

\* some marker of the records b is 0 or occurs twice
MarkersViolated(b) ==
    LET ms == FlatMarkers(b.cc, InOrder(DOMAIN b.cc))
    IN  \/ \E i \in 1..Len(ms) : ms[i] = 0
        \/ \E i \in 1..Len(ms) : \E j \in 1..Len(ms) : i # j /\ ms[i] = ms[j]

\* the dimensionalities of the records b spread over more than two values
\* in a row or exceed the parent mesh
DimensionalityViolated(b, pdim) ==
    LET dims == {b.cc[c].dimensionality : c \in DOMAIN b.cc}
    IN  \/ SetMax(dims) - SetMin(dims) \notin {0, 1}
        \/ SetMax(dims) > pdim

\* C15 (as claimed): the error initialize() reports is that of the earliest
\* violated check in the order namespace, markers, dimensionality, topology,
\* unused entities.
C15_EarliestViolatedCheckIsReported ==
    (vstep = "failed" /\ run = 1) =>
        LET ns == NamespaceViolated(before)
            mk == MarkersViolated(before)
            dm == DimensionalityViolated(before, model.parent_mesh_dimensionality)
        IN  /\ ns => verr.check \in {"namespace", "protected"}
            /\ (~ns /\ mk) => verr.check = "marker"
            /\ (~ns /\ ~mk /\ dm) => verr.check = "dimensionality"
            /\ verr.check \in {"equation", "symbol", "topology", "unused"}
                  => (~ns /\ ~mk /\ ~dm)

\* the five validation failures of the claim
ValidationChecks == {"namespace", "marker", "dimensionality", "topology", "unused"}

\* the exception classes the raise statements of each check name
raised_by ==
    [ck \in ValidationChecks |->
        IF ck = "topology" THEN {"NotImplementedError", "Exception", "ValueError"}
        ELSE {"ValueError"}]

\* C16 (as claimed): the kind of the error of a failed validation check is
\* raised by none of the other four checks, so the kind alone tells which
\* check failed.
C16_ErrorKindTellsTheCheck ==
    (vstep = "failed" /\ verr.check \in ValidationChecks) =>
        \A other \in ValidationChecks \ {verr.check} : verr.kind \notin raised_by[other]

\* the raise statements modelled agree with the table raised_by
RaisedKindsAreTabled ==
    (vstep = "failed" /\ verr.check \in ValidationChecks) =>
        verr.kind \in raised_by[verr.check]

\* C17 (as claimed): when initialize() stops with a validation error, the
\* records are as they were before initialize() was called.
C17_FailedValidationLeavesRecords ==
    (vstep = "failed" /\ run = 1) => Records(model) = before

\* C20 (as claimed): a second run of the validation steps on a validated,
\* unchanged registry raises nothing and leaves every record as the first
\* run left it.
C20_RevalidationChangesNothing ==
    (run = 2 /\ vstep \in {"failed", "revalidated"}) =>
        /\ verr = NoError
        /\ Records(model) = Records(first)

\* the dimensionalities of the compartments of the model
Dimensionalities(m) == {m.cc[c].dimensionality : c \in DOMAIN m.cc}

\* what the dimensionality check is claimed to do in one run of it
DimensionalityCheckAsClaimed ==
    LET dims == Dimensionalities(model)
        passes == /\ SetMax(dims) - SetMin(dims) \in {0, 1}
                  /\ SetMax(dims) <= model.parent_mesh_dimensionality
    IN  /\ (vstep' # "failed") <=> passes
        /\ vstep' # "failed" =>
              \A c \in DOMAIN model'.cc :
                  model'.cc[c].is_volume =
                      IF model.cc[c].dimensionality = SetMax(dims) THEN "True" ELSE "False"

\* C18 (as claimed): the dimensionality check passes exactly when the
\* compartments' dimensionalities differ by at most 1 and the largest does
\* not exceed the parent mesh's; when it passes, every compartment's
\* is_volume says whether its dimensionality is the largest.
C18_DimensionalityCheck ==
    [][vstep = "1_1" => DimensionalityCheckAsClaimed]_vars

\* the same for the first run of the check on a model only
C18_FirstRunOnly ==
    [][(vstep = "1_1" /\ run = 1) => DimensionalityCheckAsClaimed]_vars

\* C19: once the names have passed, the marker check passes exactly when no
\* marker of any compartment, list-valued or not, is 0 and none occurs twice,
\* in two compartments or in one compartment's list.
C19_MarkerCheck ==
    [][(vstep = "1_2" /\ ~NamespaceViolated(Records(model))) =>
          /\ (vstep' # "failed") <=> ~MarkersViolated(Records(model))
          /\ vstep' = "failed" => verr'.check = "marker"]_vars

\* a list-valued marker that repeats a value was rejected by the marker check
C19_Witness ==
    /\ vstep = "failed"
    /\ verr.check = "marker"
    /\ \E c \in DOMAIN model.cc :
          /\ model.cc[c].cell_marker.is_list
          /\ Len(model.cc[c].cell_marker.values) = 2
          /\ model.cc[c].cell_marker.values[1] = model.cc[c].cell_marker.values[2]
          /\ model.cc[c].cell_marker.values[1] # 0
          /\ \A o \in DOMAIN model.cc \ {c} :
                model.cc[c].cell_marker.values[1] \notin Range(model.cc[o].cell_marker.values)

\* the compartments a reaction takes part in: those of its species and
\* its explicit restriction
Participants(m, r) ==
    {m.sc[sp].compartment_name : sp \in Values(r.species_map)}
    \cup (IF r.explicit_restriction_to_domain # ""
          THEN {r.explicit_restriction_to_domain} ELSE {})

\* the topology claimed for a reaction, "" where a fatal error is claimed
ClaimedTopology(m, r) ==
    LET volumes == Cardinality({c \in Participants(m, r) : m.cc[c].is_volume = "True"})
        surfaces == Cardinality({c \in Participants(m, r) : m.cc[c].is_volume = "False"})
    IN  IF volumes = 1 /\ surfaces = 0 THEN "volume"
        ELSE IF volumes = 0 /\ surfaces = 1 THEN "surface"
        ELSE IF volumes = 1 /\ surfaces = 1 THEN "volume_surface"
        ELSE IF volumes = 2 /\ surfaces = 1 THEN "volume_surface_volume"
        ELSE ""

\* C12: _init_2_3 gives every reaction the topology that the is_volume flags
\* of its distinct participating compartments determine (volume, surface,
\* volume_surface, volume_surface_volume); any other combination raises and
\* the reaction gets no topology (nor does any reaction after it).
C12_TopologyFromVolumeFlags ==
    [][vstep = "2_3" =>
          LET bad == {r \in DOMAIN model.rc : ClaimedTopology(model, model.rc[r]) = ""}
          IN  /\ (vstep' = "failed") <=> (bad # {})
              /\ \A r \in DOMAIN model.rc :
                    IF \A b \in bad : Rank(r) < Rank(b)
                    THEN model'.rc[r].topology = ClaimedTopology(model, model.rc[r])
                    ELSE model'.rc[r].topology = model.rc[r].topology]_vars

\* two reactions were classified, one of them volume_surface_volume
C12_Witness ==
    /\ vstep = "2_4"
    /\ DOMAIN model.rc = {"r1", "r2"}
    /\ model.rc["r1"].topology = "volume_surface_volume"
    /\ model.rc["r2"].topology \in {"volume", "surface"}

\* the species of the reaction lie in two different volume compartments
SpansTwoVolumes(m, r) ==
    LET homes == {m.sc[sp].compartment_name : sp \in Values(r.species_map)}
    IN  /\ Cardinality(homes) = 2
        /\ \A c \in homes : m.cc[c].is_volume = "True"

\* the reaction is restricted to a surface compartment
RestrictedToSurface(m, r) ==
    /\ r.explicit_restriction_to_domain \in DOMAIN m.cc
    /\ m.cc[r.explicit_restriction_to_domain].is_volume = "False"

\* what _init_2_3 does with a reaction between two volumes, where `tag` is
\* the topology claimed when a surface restriction is given
TwoVolumeReaction(tag) ==
    \A r \in DOMAIN model.rc :
        SpansTwoVolumes(model, model.rc[r]) =>
            /\ model.rc[r].explicit_restriction_to_domain = "" =>
                  /\ vstep' = "failed"
                  /\ verr'.kind = "NotImplementedError"
                  /\ model'.rc[r].topology = ""
            /\ RestrictedToSurface(model, model.rc[r]) =>
                  /\ vstep' # "failed"
                  /\ model'.rc[r].topology = tag

\* C13 (as claimed): a reaction between two volume compartments without an
\* explicit restriction is rejected as ambiguous; restricted to a surface
\* compartment it is accepted and classified volume_surface.
C13_AsClaimed == [][vstep = "2_3" => TwoVolumeReaction("volume_surface")]_vars

\* C13 (amended): a reaction between two volume compartments without an
\* explicit restriction is rejected as ambiguous; restricted to a surface
\* compartment it is accepted and classified volume_surface_volume.
C13_RestrictionResolvesTwoVolumes ==
    [][vstep = "2_3" => TwoVolumeReaction("volume_surface_volume")]_vars

\* a reaction between two volumes, restricted to a surface, was accepted
C13_Witness ==
    /\ vstep = "2_4"
    /\ \E r \in DOMAIN model.rc :
          /\ SpansTwoVolumes(model, model.rc[r])
          /\ RestrictedToSurface(model, model.rc[r])
          /\ model.rc[r].topology # ""

\* the parameters, species and compartments some reaction refers to
Referenced(m) ==
    [pc |-> UNION {Values(m.rc[r].param_map) : r \in DOMAIN m.rc},
     sc |-> UNION {Values(m.rc[r].species_map) : r \in DOMAIN m.rc},
     cc |-> UNION {Participants(m, m.rc[r]) : r \in DOMAIN m.rc}]

\* C14: without the allow-unused override the sweep raises exactly when a
\* parameter, species or compartment is referenced by no reaction, and it
\* removes nothing; with the override it never raises and removes exactly
\* the unreferenced ones, so that all that remain are referenced.
C14_UnusedSweep ==
    [][vstep = "2_4" =>
          LET ref == Referenced(model)
              unused == (model.pc \ ref.pc) \cup (DOMAIN model.sc \ ref.sc)
                        \cup (DOMAIN model.cc \ ref.cc)
          IN  IF ~model.allow_unused_components
              THEN /\ (vstep' = "failed") <=> (unused # {})
                   /\ Records(model') = Records(model)
              ELSE /\ vstep' # "failed"
                   /\ model'.pc = model.pc \cap ref.pc
                   /\ model'.sc = Restrict(model.sc, ref.sc)
                   /\ model'.cc = Restrict(model.cc, ref.cc)
                   /\ model'.rc = model.rc
                   /\ model'.pc \subseteq Referenced(model').pc
                   /\ DOMAIN model'.sc \subseteq Referenced(model').sc
                   /\ DOMAIN model'.cc \subseteq Referenced(model').cc]_vars

\* the sweep removed a parameter, a species and a compartment
C14_Witness ==
    /\ vstep = "2_5"
    /\ run = 1
    /\ model.pc # before.pc
    /\ DOMAIN model.sc # DOMAIN before.sc
    /\ DOMAIN model.cc # DOMAIN before.cc

\* ------------------------------------------------------------------------
\* Properties of the step-size rules and of the clock
\* ------------------------------------------------------------------------
\* a call of monolithic_solve begins with no reset pending and a head
\* checkpoint that the step would cross
Crossing ==
    /\ ~adjust_dt_None
    /\ adjust_dt # <<>>
    /\ ~reset_dt
    /\ t < adjust_dt[1][1]
    /\ adjust_dt[1][1] <= t + dt

\* the step size the final-time rule leaves of a step size d
Clamped(d) == IF t + d > final_t THEN final_t - t ELSE d

\* C24: in a call that begins with no reset pending and a head checkpoint
\* (tc, dc) with t < tc <= t + dt, check_dt_adjust makes the step size
\* max(tc - t, dc), hence at least dc, and sets the pending flag; with the
\* list None or empty, or with no reset pending and tc > t + dt, it leaves
\* the step size, the flag and the list as they are.
C24_CrossingRule ==
    [][idx' = idx + 1 =>
          LET r == check_dt_adjust(t, dt, reset_dt, adjust_dt, adjust_dt_None)
          IN  /\ Crossing =>
                    LET tc == adjust_dt[1][1]
                        dc == adjust_dt[1][2]
                    IN  /\ r.dt = (IF tc - t >= dc THEN tc - t ELSE dc)
                        /\ r.dt >= dc
                        /\ reset_dt'
                        /\ adjust_dt' = adjust_dt
                        /\ dt' = Clamped(r.dt)
              /\ ( \/ adjust_dt_None
                   \/ adjust_dt = <<>>
                   \/ (~reset_dt /\ adjust_dt[1][1] > t + dt) ) =>
                    /\ r.dt = dt
                    /\ reset_dt' = reset_dt
                    /\ adjust_dt' = adjust_dt
                    /\ dt' = Clamped(dt)]_vars

\* a step met its checkpoint exactly at t + dt, kept its step size (larger
\* than the checkpoint's) and left the reset pending
C24_Witness ==
    /\ reset_dt
    /\ adjust_dt # <<>>
    /\ t = adjust_dt[1][1]
    /\ t = tn + dt
    /\ dt > adjust_dt[1][2]

\* C25 (as claimed): when a step would cross the next checkpoint,
\* check_dt_adjust leaves a step size no larger than the one it found.
C25_CrossingOnlyShrinks ==
    [][(idx' = idx + 1 /\ Crossing) =>
          check_dt_adjust(t, dt, reset_dt, adjust_dt, adjust_dt_None).dt <= dt]_vars

\* C26: the checkpoint list changes only by losing its head, one checkpoint
\* per call, and only in a call that began with the reset pending; such a
\* call sets the step size to the head's and clears the flag.
C26_CheckpointsConsumedInOrder ==
    [][idx' = idx + 1 =>
          /\ adjust_dt' # adjust_dt =>
                /\ reset_dt
                /\ adjust_dt # <<>>
                /\ adjust_dt' = Tail(adjust_dt)
          /\ (reset_dt /\ ~adjust_dt_None /\ adjust_dt # <<>>) =>
                /\ adjust_dt' = Tail(adjust_dt)
                /\ ~reset_dt'
                /\ dt' = Clamped(adjust_dt[1][2])
                /\ consumed' = Append(consumed, adjust_dt[1])
          /\ adjust_dt_None' = adjust_dt_None]_vars

\* two checkpoints were consumed, each in a call of its own
C26_Witness ==
    /\ Len(consumed) = 2
    /\ adjust_dt = <<>>
    /\ ~reset_dt
    /\ dt = consumed[2][2]

\* C29: a call in which the solve raises, or is rejected, leaves the clock
\* as the call advanced it: the counter incremented, the step size, flag and
\* checkpoint list as the step-size rules left them, tn the time at which
\* the call began and t that time plus the step size.
C29_FailedStepIsNotRolledBack ==
    [][(idx' = idx + 1 /\ exc' \in {"SolverError", "AssertionError:max_it"}) =>
          LET r == check_dt_adjust(t, dt, reset_dt, adjust_dt, adjust_dt_None)
          IN  /\ dt' = Clamped(r.dt)
              /\ reset_dt' = r.reset_dt
              /\ adjust_dt' = r.adjust_dt
              /\ tn' = t
              /\ t' = t + dt']_vars

\* a second call, made after the clock had advanced, failed in the solve and
\* advanced the clock again
C29_Witness ==
    /\ exc = "SolverError"
    /\ idx = 2
    /\ tn > 0
    /\ t > tn
    /\ t = tn + dt

\* C30 (as claimed): a call of monolithic_solve made at t = final_t returns,
\* leaves t at final_t with a step size of 0, and solve_single_timestep
\* reports the end of the simulation.
C30_FinishedStateIsAbsorbing ==
    [][(idx' = idx + 1 /\ t = final_t) =>
          /\ exc' = "none"
          /\ t' = final_t
          /\ dt' = 0
          /\ pc = "solve" => pc' = "solve_returned"]_vars

\* the clock at the final time: whenever such a call gets past
\* check_dt_adjust, however it ends, t stays at final_t and the step size is 0
ClockStaysAtFinalTime ==
    [][(idx' = idx + 1 /\ t = final_t /\ exc' # "AssertionError:tadjust") =>
          /\ t' = final_t
          /\ dt' = 0]_vars

\* the free symbols of the rate strings of the reactions of m
FreeSymbols(m) ==
    UNION {Range(m.rc[r].eqn_f_str) \cup Range(m.rc[r].eqn_r_str) : r \in DOMAIN m.rc}

\* C22: _init_2_2 raises the unknown-symbol error exactly when the forward
\* or reverse rate string of some reaction has a free symbol that is neither
\* a parameter nor a species of the model (the name of a compartment or of a
\* reaction is rejected like any other); it changes nothing in the model.
C22_UnknownSymbolCheck ==
    [][vstep = "2_2" =>
          LET unknown == FreeSymbols(model) \ (model.pc \cup DOMAIN model.sc)
          IN  /\ (vstep' = "failed") <=> (unknown # {})
              /\ vstep' = "failed" => verr' = Raise("NameError", "symbol")
              /\ model' = model]_vars

\* a rate string that names a compartment was rejected as an unknown symbol
C22_Witness ==
    /\ vstep = "failed"
    /\ verr.check = "symbol"
    /\ \E r \in DOMAIN model.rc :
          Range(model.rc[r].eqn_f_str) \ (model.pc \cup DOMAIN model.sc) = {"c1"}

\* C27 (as claimed): once _init_1 and _init_2 have completed, a compartment
\* of the registry is a volume exactly when its dimensionality is the
\* largest among the compartments of the registry.
C27_VolumeIffMaximalDimension ==
    (run = 1 /\ vstep \in {"3", "5_1", "5_2"}) =>
        \A c \in DOMAIN model.cc :
            (model.cc[c].is_volume = "True")
                <=> (model.cc[c].dimensionality = SetMax(Dimensionalities(model)))

\* without the removal of unused components the flags of a validated model
\* are as claimed
VolumeFlagsWithoutRemoval ==
    (run = 1 /\ vstep \in {"3", "5_1", "5_2"} /\ DOMAIN model.cc = DOMAIN before.cc) =>
        \A c \in DOMAIN model.cc :
            (model.cc[c].is_volume = "True")
                <=> (model.cc[c].dimensionality = SetMax(Dimensionalities(model)))

\* C28 (as claimed): after _init_4_1 the active compartments are exactly the
\* compartments of the registry that hold a species, in registry order, and
\* the dof_index of each is its position in that list, counted from 0.
C28_ActiveCompartmentsHoldSpecies ==
    stage \notin {"registry", "called"} =>
        /\ active = SortedSeq({c \in 1..Len(cc) : cc[c] >= 1})
        /\ \A k \in 1..Len(active) : dof_index[active[k]] = k - 1

\* the indices follow the positions of the list, whatever the list holds
ActiveIndicesFollowPositions ==
    stage \notin {"registry", "called"} =>
        /\ \A k \in 1..Len(active) : dof_index[active[k]] = k - 1
        /\ \A c \in 1..Len(cc) : cc[c] >= 1 => \E k \in 1..Len(active) : active[k] = c

\* ------------------------------------------------------------------------
\* Floating-point numbers of the parameter updates
\* ------------------------------------------------------------------------
\* A number is an integer count of quanta of 2^-FracBits and keeps Precision
\* significant bits; every operation rounds its exact result to the nearest
\* such number, ties to the even significand, as the doubles of the source do.
Unit == 2 ^ FracBits

\* np.nan; every other number of the parameter updates is nonnegative
NaN == -1

RECURSIVE BitLength(_)
BitLength(n) == IF n = 0 THEN 0 ELSE 1 + BitLength(n \div 2)

\* N / D rounded to the nearest integer, ties to even
RoundHalfEven(N, D) ==
    LET q == N \div D
        r == N % D
    IN  IF 2 * r < D THEN q
        ELSE IF 2 * r > D THEN q + 1
        ELSE IF q % 2 = 0 THEN q ELSE q + 1

\* N / D >= 0 rounded to Precision significant bits
RoundRatio(N, D) ==
    LET k == BitLength(N \div D)
    IN  IF k <= Precision THEN RoundHalfEven(N, D)
        ELSE RoundHalfEven(N, D * 2 ^ (k - Precision)) * 2 ^ (k - Precision)

Float(N, D) == IF N >= 0 THEN RoundRatio(N, D) ELSE 0 - RoundRatio(0 - N, D)

Representable(n) == Float(n, 1) = n

fadd(a, b) == Float(a + b, 1)
fsub(a, b) == Float(a - b, 1)
fmul(a, b) == Float(a * b, Unit)
fdiv(a, b) == Float(a * Unit, b)

\* ------------------------------------------------------------------------
\* Time-dependent parameters
\* ------------------------------------------------------------------------
\* the table of a parameter given by data, (time, value) rows, and the table
\* of its integral over time
sampling_data == <<<<Unit, 1>>, <<2 * Unit, 2>>, <<3 * Unit, 4>>>>
preint_sampling_data == <<<<Unit, 0>>, <<2 * Unit, Unit>>, <<3 * Unit, 3 * Unit>>>>

Inside(x, table) == table[1][1] <= x /\ x <= table[Len(table)][1]

\* np.interp(x, xp, fp, left=np.nan, right=np.nan)
interp(x, table) ==
    IF ~Inside(x, table) THEN NaN
    ELSE LET j == CHOOSE i \in 1..Len(table) :
                      /\ table[i][1] <= x
                      /\ \A l \in 1..Len(table) : table[l][1] <= x => l <= i
         IN  IF table[j][1] = x THEN table[j][2]
             ELSE LET slope == fdiv(fsub(table[j + 1][2], table[j][2]),
                                    fsub(table[j + 1][1], table[j][1]))
                  IN  fadd(fmul(slope, fsub(x, table[j][1])), table[j][2])

\* a pre-integrated expression whose update forgets to divide by the step
preintegrated_expression_undivided(parameter, tprev, tnow, step) ==
    fsub(fmul(parameter.rate, tnow), fmul(parameter.rate, tprev))

\* new_value of a pre-integrated expression parameter with antiderivative
\* preint_sym_expr = rate * t
preintegrated_expression(parameter, tprev, tnow, step) ==
    LET a == fmul(parameter.rate, tprev)
        b == fmul(parameter.rate, tnow)
    IN  fdiv(fsub(b, a), step)

\* new_value of a pre-integrated data parameter; nan propagates
preintegrated_data(int_data, tprev, tnow, step) ==
    LET a == interp(tprev, int_data)
        b == interp(tnow, int_data)
    IN  IF a = NaN \/ b = NaN THEN NaN ELSE fdiv(fsub(b, a), step)

\* the loop over self.pc.items from item i on: the values it leaves and the
\* exception that ended it.  A data parameter without pre-integration reads
\* the name data, which nothing defines, so that branch raises NameError
\* before its range test
RECURSIVE update_items(_, _, _)
update_items(items, i, value) ==
    IF i > Len(items) THEN [value |-> value, exc |-> "none"]
    ELSE LET parameter == items[i]
         IN  IF ~parameter.is_time_dependent
             THEN update_items(items, i + 1, value)
             ELSE IF ~parameter.use_preintegration
             THEN IF parameter.type = "expression"
                  THEN update_items(items, i + 1,
                           [value EXCEPT ![parameter.name] = parameter.rate])
                  ELSE [value |-> value, exc |-> "NameError"]
             ELSE IF parameter.type = "expression"
             THEN update_items(items, i + 1,
                      [value EXCEPT ![parameter.name] =
                          preintegrated_expression(parameter, tn, t, dt)])
             ELSE IF preintegrated_data(preint_sampling_data, tn, t, dt) = NaN
             THEN [value |-> value, exc |-> "AssertionError"]
             ELSE update_items(items, i + 1,
                      [value EXCEPT ![parameter.name] =
                          preintegrated_data(preint_sampling_data, tn, t, dt)])

update_time_dependent_parameters ==
    /\ pc = "stepped"
    /\ LET r == update_items(pc_items, 1, pvalue)
       IN  /\ pvalue' = r.value
           /\ exc' = r.exc
    /\ pc' = "updated"
    /\ UNCHANGED <<t, tn, dt, idx, idx_nl, reset_dt, adjust_dt, adjust_dt_None,
                   final_t, use_snes, u, pc_items, consumed, solver_ok>>
    /\ UNCHANGED <<assembly, validation>>

\* ------------------------------------------------------------------------
\* Specification of the parameter updates
\* ------------------------------------------------------------------------
TimeInputs == {n \in 0..MaxTime : Representable(n)}
Rates == {n \in 1..MaxRate : Representable(n)}

\* the parameters a container may hold; value is the value before the update
Parameters ==
    {[name |-> "k_const", is_time_dependent |-> FALSE,
      use_preintegration |-> FALSE, type |-> "constant", rate |-> c,
      value |-> c] : c \in {Unit}}
    \cup {[name |-> "k_expr", is_time_dependent |-> TRUE,
           use_preintegration |-> FALSE, type |-> "expression", rate |-> c,
           value |-> c] : c \in Rates}
    \cup {[name |-> "k_preint", is_time_dependent |-> TRUE,
           use_preintegration |-> TRUE, type |-> "expression", rate |-> c,
           value |-> c] : c \in Rates}
    \cup {[name |-> "k_data", is_time_dependent |-> TRUE,
           use_preintegration |-> pre, type |-> "from_data", rate |-> Unit,
           value |-> sampling_data[1][2]] : pre \in {FALSE}}
    \cup {[name |-> "k_preint_data", is_time_dependent |-> TRUE,
           use_preintegration |-> pre, type |-> "from_data", rate |-> Unit,
           value |-> sampling_data[1][2]] : pre \in {TRUE}}

\* containers of one or two parameters with distinct names
ParameterLists ==
    {<<p>> : p \in Parameters}
    \cup {l \in {<<p, q>> : p \in Parameters, q \in Parameters} :
              l[1].name # l[2].name}

ValuesBefore(items) ==
    [n \in {items[i].name : i \in 1..Len(items)} |->
        (CHOOSE p \in {items[i] : i \in 1..Len(items)} : p.name = n).value]

\* the clock after monolithic_solve has advanced it by one step of size dt > 0
\* from tn >= 0, before the parameters are updated
InitParameters ==
    /\ tn \in TimeInputs
    /\ dt \in TimeInputs \ {0}
    /\ t = fadd(tn, dt)
    /\ idx = 1
    /\ idx_nl = <<>>
    /\ reset_dt = FALSE
    /\ adjust_dt_None = TRUE
    /\ adjust_dt = <<>>
    /\ final_t = t
    /\ use_snes = TRUE
    /\ u = [k \in {"u", "n"} |-> [c \in Compartments |-> 0]]
    /\ pc_items \in ParameterLists
    /\ pvalue = ValuesBefore(pc_items)
    /\ consumed = <<>>
    /\ exc = "none"
    /\ solver_ok = FALSE
    /\ pc = "stepped"
    /\ cc = [i \in Compartments |-> 1]
    /\ mpi_size = 1
    /\ stage = "problem"
    /\ active = [i \in Compartments |-> i]
    /\ dof_index = [i \in Compartments |-> i - 1]
    /\ ulen = num_active_compartments
    /\ forms = {}
    /\ Fsum = {}
    /\ Fblocks = <<>>
    /\ Jblocks = <<>>
    /\ block_sizes = <<>>
    /\ bexc = "none"
    /\ Validated

NextParameters == update_time_dependent_parameters

SpecParameters == InitParameters /\ [][NextParameters]_vars

\* ------------------------------------------------------------------------
\* Properties of the parameter updates
\* ------------------------------------------------------------------------
\* item i was reached by the loop: no item before it raised
Reached(i) ==
    update_items(SubSeq(pc_items, 1, i - 1), 1, ValuesBefore(pc_items)).exc = "none"

PreintegratedRates ==
    {i \in 1..Len(pc_items) :
        /\ pc_items[i].is_time_dependent
        /\ pc_items[i].use_preintegration
        /\ pc_items[i].type = "expression"}

DataParameters ==
    {i \in 1..Len(pc_items) :
        pc_items[i].is_time_dependent /\ pc_items[i].type = "from_data"}

\* the product a * b is a number of the format
ExactProduct(a, b) == (a * b) % Unit = 0 /\ Representable((a * b) \div Unit)

\* no operation of the update of a pre-integrated rate c rounds: the sum
\* tn + dt, the products c * tn and c * t, and their difference c * dt
ExactOperations(c) ==
    /\ t = tn + dt
    /\ ExactProduct(c, tn)
    /\ ExactProduct(c, t)
    /\ ExactProduct(c, dt)

\* C21 as claimed: after a step from tn >= 0 by dt > 0, the update sets a
\* pre-integrated expression parameter with antiderivative c * t to exactly c
C21_PreintegratedRateIsExact ==
    pc = "updated" =>
        \A i \in PreintegratedRates :
            Reached(i) => pvalue[pc_items[i].name] = pc_items[i].rate

\* C21: after a step from tn >= 0 by dt > 0, the update sets a pre-integrated
\* expression parameter with antiderivative c * t to exactly c whenever none
\* of the floating-point operations involved rounds (tn + dt, c * tn, c * t
\* and their difference c * dt are numbers of the format)
C21_PreintegratedRateIsExactWithoutRounding ==
    pc = "updated" =>
        \A i \in PreintegratedRates :
            (Reached(i) /\ ExactOperations(pc_items[i].rate)) =>
                pvalue[pc_items[i].name] = pc_items[i].rate

C21_Witness ==
    /\ pc = "updated"
    /\ tn > 0
    /\ dt # Unit
    /\ \E i \in PreintegratedRates :
           /\ Reached(i)
           /\ pc_items[i].rate # Unit
           /\ ExactOperations(pc_items[i].rate)
           /\ pvalue[pc_items[i].name] = pc_items[i].rate

\* C23: a data parameter the update reaches at a time outside its table (the
\* new time, for pre-integrated data also the previous time) raises the
\* extrapolation error and keeps its value; inside the table a directly
\* sampled parameter takes the linear interpolation of the table at the new
\* time, and the update goes on
C23_DataParameterInterpolatesOrRaises ==
    pc = "updated" =>
        \A i \in DataParameters :
            Reached(i) =>
                LET parameter == pc_items[i]
                    outside ==
                        IF parameter.use_preintegration
                        THEN ~Inside(t, preint_sampling_data)
                             \/ ~Inside(tn, preint_sampling_data)
                        ELSE ~Inside(t, sampling_data)
                IN  IF outside
                    THEN /\ exc \in {"Exception", "AssertionError"}
                         /\ pvalue[parameter.name] = parameter.value
                    ELSE /\ pvalue[parameter.name] =
                                IF parameter.use_preintegration
                                THEN preintegrated_data(preint_sampling_data,
                                                        tn, t, dt)
                                ELSE interp(t, sampling_data)
                         /\ Reached(i + 1)

\* what the code does hold to: a data parameter the update reaches at a time
\* outside its table ends the update with an exception and keeps its value
DataParameterOutsideTableRaises ==
    pc = "updated" =>
        \A i \in DataParameters :
            (Reached(i) /\ ( \/ ~Inside(t, preint_sampling_data)
                             \/ ~Inside(tn, preint_sampling_data) )) =>
                /\ exc # "none"
                /\ pvalue[pc_items[i].name] = pc_items[i].value

====
